---- MODULE Spec2Model ----
(***************************************************************************)
(* The agent loop of uriva/ai-utils (runAbstractAgent in src/agent.ts),    *)
(* its tool dispatch (handleFunctionCalls, callToResult) and the history   *)
(* events it appends through the injected outputEvent sink.                *)
(*                                                                         *)
(* History is the externally owned event sequence read with getHistory and *)
(* appended to with outputEvent.  One run of runAgent is modelled from the *)
(* call to the settlement of its promise; the steps are the await points   *)
(* of the code.  Participants and tool handlers may append to the history  *)
(* while the loop is suspended.                                            *)
(*                                                                         *)
(* The Gemini adapter (geminiAgent.ts) is modelled by three further        *)
(* machines over their own variables: the history-repair recovery of one   *)
(* model call (callGeminiWithFixHistory), the retry layer of one request   *)
(* (callGemini) and the mapping of one response to history events          *)
(* (geminiAgentCaller).  The filters geminiAgentCaller applies to the      *)
(* history before the first request and the request built from it          *)
(* (buildReq) precede the recovery machine.                                *)
(*                                                                         *)
(* Two small machines cover the rest of agent.ts: the dispatch of one      *)
(* function call in a run with skills (createSkillTools) and the token     *)
(* estimates of a pair of events (estimateTokens).                         *)
(***************************************************************************)
EXTENDS Integers, Sequences, FiniteSets, TLC

\* ---------------------------------------------------------------- bounds
\* maxIterations of the AgentSpec ranges over 0..MaxIterationsBound
MaxIterationsBound == 2
\* function calls the provider emits during one run
MaxFunctionCalls == 2
\* events appended to the history during one run by others than the loop
\* (participants and tool handlers)
MaxConcurrentAppends == 1
\* the longest text of an event handed to estimateTokens, in UTF-16 code
\* units
MaxTextLength == 40
\* events in a history handed to filterOrphanedToolResults
MaxFilterHistory == 4
\* events in a history handed to geminiAgentCaller
MaxCallerHistory == 3

VARIABLES
  history,          \* the history store (sequence of events)
  maxIterations,    \* AgentSpec.maxIterations
  toolFree,         \* TRUE: tools = [] and the provider emits no function call
  initialHistory,   \* the history the run started from
  c,                \* the iteration counter of runAbstractAgent
  pc,               \* where the run is suspended
  snapshot,         \* the history handed to the model call of this iteration
  output,           \* the events returned by the model call of this iteration
  pos,              \* next output event to append / next tool call to dispatch
  nextId,           \* idGeneration
  modelCalls,       \* number of callModel invocations
  callbackCalls,    \* number of onMaxIterationsReached invocations
  invoked,          \* handler invocations so far: <<toolCallId, name, args>>
  inFlight,         \* ids of the tool calls whose handler has not settled
  seen,             \* ids of the events handed to at least one model call
  handlerPushed,    \* ids of the events pushed by tool handlers
  participantAppends, \* number of concurrent participant appends
  thrown,           \* the error the run rejected with, "none" otherwise
  \* one model call of the Gemini adapter (callGeminiWithFixHistory)
  stored,           \* the history store rewriteHistory writes to
  callEvents,       \* the events the model call was started with
  currentEvents,    \* the repaired events of the running recovery
  currentError,     \* the error the running recovery works on
  allReplacements,  \* replacements accumulated by the running recovery
  attempt,          \* the attempt counter of the running recovery loop
  rpc,              \* where the model call is suspended
  sent,             \* the events of the request in flight (the last one sent)
  numRequests,      \* callGemini invocations of this model call
  rewrites,         \* the arguments of the rewriteHistory calls, in order
  storedAtSend,     \* the store as it was when the last request was sent
  causes,           \* what the repairs so far removed, in order
  \* the mapping of one provider response to history events
  geminiOutput,     \* the parts of the response (GeminiOutput)
  mappedEvents,     \* the events geminiAgentCaller returns for it
  mpc,              \* "mapping" until the response is mapped, then "mapped"
  \* one callGemini invocation (retry layer)
  reqModel,         \* the model of the request handed to callGemini
  rawRequests,      \* the rawCallGemini invocations: <<model, outcome>>
  waits,            \* the delays slept between the invocations, in ms
  gpc,              \* where callGemini is suspended
  \* the filters of geminiAgentCaller ahead of the model call
  given,            \* the events geminiAgentCaller was called with
  orphanPass,       \* filterOrphanedToolResults: what it kept and matched
  orphanFree,        \* the events filterOrphanedToolResults returned
  \* one function call dispatched in a run with skills
  skills,           \* AgentSpec.skills
  skillCall,        \* the function call handed to callToResult
  handlerRuns,      \* the handlers invoked for it, in order
  skillOutcome,     \* what callToResult returned or threw
  spc,              \* where the dispatch is suspended
  \* the token estimates of a pair of events
  tokenEvents,      \* the events handed to estimateTokens, in order
  tokenEstimates,   \* what estimateTokens returned or threw for them
  tpc               \* "estimating" until every event is estimated

loopVars == <<history, maxIterations, toolFree, initialHistory, c, pc,
              snapshot, output, pos, nextId, modelCalls, callbackCalls,
              invoked, inFlight, seen, handlerPushed, participantAppends,
              thrown>>

recoveryVars == <<stored, callEvents, currentEvents, currentError,
                  allReplacements, attempt, rpc, sent, numRequests, rewrites,
                  storedAtSend, causes>>

mappingVars == <<geminiOutput, mappedEvents, mpc>>

retryVars == <<reqModel, rawRequests, waits, gpc>>

callerVars == <<given, orphanPass, orphanFree>>

skillVars == <<skills, skillCall, handlerRuns, skillOutcome, spc>>

tokenVars == <<tokenEvents, tokenEstimates, tpc>>

adapterVars == <<recoveryVars, mappingVars, retryVars,
                 callerVars,
                 skillVars,
                 tokenVars>>

vars == <<loopVars, adapterVars>>

\* ----------------------------------------------------------- history events
NoId == 0
NoName == "none"

\* one record shape for every variant; fields a variant lacks hold the
\* neutral value.  text and result are sequences of fragments, so that a
\* placeholder appended to them stays visible; the clock ticks with the id
\* generator
Event(type, isOwn, id, name, parameters, result, attachments, toolCallId) ==
  [type |-> type, isOwn |-> isOwn, id |-> id, timestamp |-> id,
   name |-> name, text |-> <<>>, parameters |-> parameters,
   result |-> result, attachments |-> attachments,
   toolCallId |-> toolCallId]

participantUtteranceTurn(id) ==
  Event("participant_utterance", FALSE, id, "user", "none", <<>>, <<>>, NoId)

ownUtteranceTurnWithMetadata(id) ==
  Event("own_utterance", TRUE, id, NoName, "none", <<>>, <<>>, NoId)

toolUseTurnWithMetadata(fc, id) ==
  Event("tool_call", TRUE, id, fc.name, fc.args, <<>>, <<>>, NoId)

\* toolResultTurn that drops the call id
toolResultTurnWithoutCallId(r, id) ==
  Event("tool_result", TRUE, id, r.name, "none", r.result, r.attachments,
        NoId)

toolResultTurn(r, id) ==
  Event("tool_result", TRUE, id, r.name, "none", r.result, r.attachments,
        r.toolCallId)

\* doNothingEvent that leaves isOwn unset
doNothingEventNotOwn(id) ==
  Event("do_nothing", FALSE, id, NoName, "none", <<>>, <<>>, NoId)

doNothingEvent(id) ==
  Event("do_nothing", TRUE, id, NoName, "none", <<>>, <<>>, NoId)

Ids(events) == {events[i].id : i \in 1..Len(events)}

last(events) == events[Len(events)]

\* ------------------------------------------------------------ tool registry
\* the argument values a provider can put in a function call
ValidArgs == "valid_args"
InvalidArgs == "invalid_args"

\* the one declared tool; parameters is the set of values its schema accepts
someTool == [name |-> "doSomethingUnique", parameters |-> {ValidArgs}]

\* AgentSpec.tools of the run
tools == IF toolFree THEN <<>> ELSE <<someTool>>

\* allTools of runAbstractAgent (no skills declared)
allTools == tools

\* function calls a provider response can carry
FunctionCalls ==
  { [name |-> "doSomethingUnique", args |-> ValidArgs],
    [name |-> "doSomethingUnique", args |-> InvalidArgs],
    [name |-> "unknownTool", args |-> ValidArgs],
    [name |-> "", args |-> ValidArgs] }

\* values a tool handler can resolve with
HandlerReturns ==
  { [kind |-> "string", result |-> <<"tool output">>, attachments |-> <<>>],
    [kind |-> "object", result |-> <<"tool output">>,
     attachments |-> <<"inline">>],
    [kind |-> "invalid", result |-> <<>>, attachments |-> <<>>] }

\* z.union([z.string(), z.object({result, attachments?})])
toolReturnSchema == {r \in HandlerReturns : r.kind \in {"string", "object"}}

parseWithCatch(parameters, args) ==
  IF args \in parameters
    THEN [ok |-> TRUE, result |-> args, error |-> "none"]
    ELSE [ok |-> FALSE, result |-> "none", error |-> "ZodError"]

\* actions.find(({name: n}) => n === name): index of the first match, 0 if none
find(actions, name) ==
  LET matches == {i \in 1..Len(actions) : actions[i].name = name}
  IN IF matches = {} THEN 0
     ELSE CHOOSE i \in matches : \A j \in matches : i <= j

ToolResultValue(toolCallId, name, result, attachments) ==
  [toolCallId |-> toolCallId, name |-> name, result |-> result,
   attachments |-> attachments]

NoValue == ToolResultValue(NoId, NoName, <<>>, <<>>)

\* callToResult that throws for a name that matches no tool
callToResultThrowOnUnknown(actions, fc) ==
  LET action == find(actions, fc.name)
  IN IF fc.name = "" \/ action = 0
       THEN [kind |-> "throw", value |-> NoValue, args |-> "none",
             error |-> "Function call name is missing"]
     ELSE LET parseResult == parseWithCatch(actions[action].parameters, fc.args)
          IN IF ~parseResult.ok
               THEN [kind |-> "return",
                     value |-> ToolResultValue(fc.id, fc.name,
                                 <<"Invalid arguments: ", parseResult.error>>,
                                 <<>>),
                     args |-> "none", error |-> "none"]
               ELSE [kind |-> "handler", value |-> NoValue,
                     args |-> parseResult.result, error |-> "none"]

\* callToResult that hands the unvalidated arguments to the handler
callToResultNoValidation(actions, fc) ==
  LET action == find(actions, fc.name)
  IN IF fc.name = ""
       THEN [kind |-> "throw", value |-> NoValue, args |-> "none",
             error |-> "Function call name is missing"]
     ELSE IF action = 0
       THEN [kind |-> "return",
             value |-> ToolResultValue(fc.id, fc.name,
                         <<"Function ", fc.name, " not found">>, <<>>),
             args |-> "none", error |-> "none"]
     ELSE [kind |-> "handler", value |-> NoValue, args |-> fc.args,
           error |-> "none"]

\* callToResult up to the handler call: it throws, returns a result for the
\* model, or calls the handler with the parsed arguments
callToResult(actions, fc) ==
  LET action == find(actions, fc.name)
  IN IF fc.name = ""
       THEN [kind |-> "throw", value |-> NoValue, args |-> "none",
             error |-> "Function call name is missing"]
     ELSE IF action = 0
       THEN [kind |-> "return",
             value |-> ToolResultValue(fc.id, fc.name,
                         <<"Function ", fc.name, " not found">>, <<>>),
             args |-> "none", error |-> "none"]
     ELSE LET parseResult == parseWithCatch(actions[action].parameters, fc.args)
          IN IF ~parseResult.ok
               THEN [kind |-> "return",
                     value |-> ToolResultValue(fc.id, fc.name,
                                 <<"Invalid arguments: ", parseResult.error>>,
                                 <<>>),
                     args |-> "none", error |-> "none"]
               ELSE [kind |-> "handler", value |-> NoValue,
                     args |-> parseResult.result, error |-> "none"]

\* callToResult that turns whatever the handler resolved with into a result
callToResultAfterHandlerUnchecked(fc, out) ==
  [kind |-> "return",
   value |-> ToolResultValue(fc.id, fc.name, out.result, out.attachments),
   args |-> "none", error |-> "none"]

\* callToResult after the handler resolved with out
callToResultAfterHandler(fc, out) ==
  LET parsed == parseWithCatch(toolReturnSchema, out)
  IN IF ~parsed.ok
       THEN [kind |-> "throw", value |-> NoValue, args |-> "none",
             error |-> "handler returned invalid value"]
       ELSE [kind |-> "return",
             value |-> ToolResultValue(fc.id, fc.name, parsed.result.result,
                         IF parsed.result.kind = "string" THEN <<>>
                         ELSE parsed.result.attachments),
             args |-> "none", error |-> "none"]

\* handleFunctionCalls: filter the tool_call events, map them to FunctionCall
isToolCall(ev) == ev.type = "tool_call"

functionCallsOf(events) ==
  LET calls == SelectSeq(events, isToolCall)
  IN [i \in 1..Len(calls) |->
        [name |-> calls[i].name, args |-> calls[i].parameters,
         id |-> calls[i].id]]

\* ------------------------------------------------------- provider responses
\* GeminiPartOfInterest: text is a sequence of characters; media tells
\* whether inlineData.data / fileData.fileUri is present
Part(type, text, name, args, media) ==
  [type |-> type, text |-> text, name |-> name, args |-> args,
   media |-> media]

TextPart == Part("text", <<"h", "i">>, NoName, "none", "none")

FunctionCallParts ==
  IF toolFree THEN {}
  ELSE {Part("function_call", <<>>, f.name, f.args, "none") :
          f \in FunctionCalls}

\* the responses of the provider: no part, a text, a function call, a text
\* followed by a function call, two function calls
ModelResponses ==
  {<<>>, <<TextPart>>} \cup
  {<<f>> : f \in FunctionCallParts} \cup
  {<<TextPart, f>> : f \in FunctionCallParts} \cup
  {<<f, g>> : f \in FunctionCallParts, g \in FunctionCallParts}

\* number of function calls in a response
NumCalls(response) ==
  Cardinality({i \in 1..Len(response) : response[i].type = "function_call"})

sawFunction(response) ==
  \E i \in 1..Len(response) : response[i].type = "function_call"

\* the characters text.replace(/[\s\u200B\u200C\u200D\uFEFF]/g, "") removes:
\* white space (\s, which holds U+FEFF) and the zero-width characters
WhiteSpace == {" ", "\n", "\t", "U+FEFF"}
ZeroWidth == {"U+200B", "U+200C", "U+200D"}

replaceBlanks(text) ==
  LET kept(ch) == ch \notin WhiteSpace \cup ZeroWidth
  IN SelectSeq(text, kept)

\* didNothing that looks at function calls and text only
didNothingIgnoringMedia(response) ==
  /\ ~sawFunction(response)
  /\ ~\E i \in 1..Len(response) :
        response[i].type = "text" /\ replaceBlanks(response[i].text) # <<>>

didNothing(response) ==
  /\ ~sawFunction(response)
  /\ ~\E i \in 1..Len(response) :
        \/ response[i].type = "text" /\
           replaceBlanks(response[i].text) # <<>>
        \/ response[i].type = "inline_data"
        \/ response[i].type = "file_data"

\* an own utterance with text and attachments
ownUtteranceWith(id, text, atts) ==
  [ownUtteranceTurnWithMetadata(id) EXCEPT !.text = text,
                                           !.attachments = atts]

geminiOutputPartToHistoryEvent(p, id) ==
  IF p.type = "text" THEN ownUtteranceWith(id, p.text, <<>>)
  ELSE IF p.type = "function_call"
    THEN toolUseTurnWithMetadata([name |-> p.name, args |-> p.args], id)
  ELSE IF p.type = "inline_data"
    THEN IF p.media = "absent" THEN ownUtteranceWith(id, <<>>, <<>>)
         ELSE ownUtteranceWith(id, <<>>, <<"inline">>)
  ELSE IF p.media = "absent" THEN ownUtteranceWith(id, <<>>, <<>>)
       ELSE ownUtteranceWith(id, <<>>, <<"file">>)

\* geminiAgentCaller that maps the parts and adds no do_nothing event
geminiAgentCallerPartsOnly(response, firstId) ==
  [i \in 1..Len(response) |->
     geminiOutputPartToHistoryEvent(response[i], firstId + i - 1)]

\* the events one model call returns, ids taken from the id generator: a
\* single do_nothing, or one event per part
geminiAgentCaller(response, firstId) ==
  IF didNothing(response) THEN <<doNothingEvent(firstId)>>
  ELSE [i \in 1..Len(response) |->
          geminiOutputPartToHistoryEvent(response[i], firstId + i - 1)]

\* the parts a response is made of in the mapping of single responses
GeminiTexts ==
  { <<>>, <<" ">>, <<"U+200B", "\n">>, <<"U+200D">>, <<"h", "i">>,
    <<" ", "h">> }

GeminiParts ==
  {Part("text", t, NoName, "none", "none") : t \in GeminiTexts} \cup
  {Part("function_call", <<>>, "doSomethingUnique", ValidArgs, "none")} \cup
  {Part(ty, <<>>, NoName, "none", m) :
     ty \in {"inline_data", "file_data"}, m \in {"present", "absent"}}

\* GeminiOutput: the responses of at most two parts
GeminiOutputs ==
  {<<>>} \cup {<<x>> : x \in GeminiParts} \cup
  {<<x, y>> : x \in GeminiParts, y \in GeminiParts}

\* ------------------------------------------- attachments and history repair
\* mime types and remote file ids occurring in attachments and provider errors
MimeA == "text/csv"
MimeB == "application/zip"
NoMime == "none"
FileA == "abc123"
FileB == "def456"
FileUnknown == "zzz999"
NoFile == "none"

\* MediaAttachment: inline data, or a reference to a remote file
inlineAttachment(mimeType) ==
  [kind |-> "inline", mimeType |-> mimeType, fileUri |-> <<>>]

fileAttachment(mimeType, fileId) ==
  [kind |-> "file", mimeType |-> mimeType, fileUri |-> <<"files/", fileId>>]

\* fileUri.includes(fileId)
includes(fileUri, fileId) == \E i \in 1..Len(fileUri) : fileUri[i] = fileId

AttachmentLists ==
  { <<>>,
    <<inlineAttachment(MimeA)>>,
    <<fileAttachment(MimeA, FileA)>>,
    <<inlineAttachment(MimeA), fileAttachment(MimeB, FileA)>>,
    <<fileAttachment(MimeA, FileA), fileAttachment(MimeB, FileB)>>,
    <<inlineAttachment(MimeB), inlineAttachment(MimeA)>>,
    <<fileAttachment(MimeB, FileB), inlineAttachment(MimeB)>> }

\* a participant utterance with text and attachments
participantUtteranceWith(id, atts) ==
  [participantUtteranceTurn(id) EXCEPT !.text = <<"text">>,
                                       !.attachments = atts]

\* the tool_result of the tool_call with id callId
toolResultWith(id, callId, atts) ==
  toolResultTurn(ToolResultValue(callId, "doSomethingUnique",
                                 <<"tool output">>, atts), id)

\* the histories a model call of the adapter is started with: a participant
\* utterance, a tool call and its result
GeminiHistories ==
  { << participantUtteranceWith(1, a),
       toolUseTurnWithMetadata([name |-> "doSomethingUnique",
                                args |-> ValidArgs], 2),
       toolResultWith(3, 2, b) >> : a \in AttachmentLists,
                                    b \in AttachmentLists }

\* the placeholders appended to text or result
UnsupportedPlaceholder(mimeType) ==
  <<"unsupported file type removed", mimeType>>

ProcessingPlaceholder == <<"user sent a file which is still being processed">>

mimeTypesOf(atts) == [i \in 1..Len(atts) |-> atts[i].mimeType]

\* " <media file expired: ...>" naming the attachments, "" when there is none
getExpiredMediaText(atts) ==
  IF atts = <<>> THEN <<>> ELSE <<"media file expired", mimeTypesOf(atts)>>

\* string concatenation of text or result with a placeholder
concat(fragments, placeholder) ==
  IF placeholder = <<>> THEN fragments ELSE Append(fragments, placeholder)

appendPlaceholder(event, placeholder) ==
  IF event.type = "tool_result"
    THEN [event EXCEPT !.result = concat(@, placeholder)]
    ELSE [event EXCEPT !.text = concat(@, placeholder)]

isFileRef(att, fileId) == att.kind = "file" /\ includes(att.fileUri, fileId)

hasFileAttachment(fileId, event) ==
  \E i \in 1..Len(event.attachments) : isFileRef(event.attachments[i], fileId)

stripFileFromEvent(fileId, placeholder, event) ==
  LET keep(att) == att.kind = "inline" \/ (att.kind = "file" /\
                                           ~includes(att.fileUri, fileId))
  IN [appendPlaceholder(event, placeholder)
        EXCEPT !.attachments = SelectSeq(@, keep)]

\* the Record<string, HistoryEvent> holding updated[i] under the id of
\* events[i] for every touched i; a later entry overwrites an earlier one
fromEntries(events, touched, updated) ==
  [id \in {events[i].id : i \in touched} |->
     updated[CHOOSE i \in touched :
               /\ events[i].id = id
               /\ \A j \in touched : events[j].id = id => j <= i]]

\* allReplacements = source: the replacements of the last repair only
ObjectAssignReset(target, source) == source

\* Object.assign(target, source)
ObjectAssign(target, source) == source @@ target

NoReplacements == [id \in {} |-> id]

\* ---- repairs
Repair(updatedHistory, replacements) ==
  [updatedHistory |-> updatedHistory, replacements |-> replacements]

\* stripAttachmentsByMimeType that removes the first attachment of the type
\* only
stripAttachmentsByMimeTypeFirstOnly(mimeType, events) ==
  LET firstOf(e) ==
        LET hits == {i \in 1..Len(e.attachments) :
                       e.attachments[i].mimeType = mimeType}
        IN IF hits = {} THEN 0
           ELSE CHOOSE i \in hits : \A j \in hits : i <= j
      kept(e) ==
        IF firstOf(e) = 0 THEN e.attachments
        ELSE SubSeq(e.attachments, 1, firstOf(e) - 1) \o
             SubSeq(e.attachments, firstOf(e) + 1, Len(e.attachments))
      touched == {i \in 1..Len(events) :
                    Len(kept(events[i])) # Len(events[i].attachments)}
      updatedHistory ==
        [i \in 1..Len(events) |->
           IF i \in touched
             THEN [appendPlaceholder(events[i],
                                     UnsupportedPlaceholder(mimeType))
                     EXCEPT !.attachments = kept(events[i])]
             ELSE events[i]]
  IN Repair(updatedHistory, fromEntries(events, touched, updatedHistory))

stripAttachmentsByMimeType(mimeType, events) ==
  LET keep(att) == att.mimeType # mimeType
      kept(e) == SelectSeq(e.attachments, keep)
      touched == {i \in 1..Len(events) :
                    Len(kept(events[i])) # Len(events[i].attachments)}
      updatedHistory ==
        [i \in 1..Len(events) |->
           IF i \in touched
             THEN [appendPlaceholder(events[i],
                                     UnsupportedPlaceholder(mimeType))
                     EXCEPT !.attachments = kept(events[i])]
             ELSE events[i]]
  IN Repair(updatedHistory, fromEntries(events, touched, updatedHistory))

\* replaceFileWithProcessingPlaceholder that stops at the first event
\* referencing the file
replaceFileWithProcessingPlaceholderOnce(fileId, events) ==
  LET hits == {i \in 1..Len(events) : hasFileAttachment(fileId, events[i])}
  IN [i \in 1..Len(events) |->
        IF i \in hits /\ \A j \in hits : i <= j
          THEN stripFileFromEvent(fileId, ProcessingPlaceholder, events[i])
          ELSE events[i]]

\* the events after the file fileId was replaced by the processing note
replaceFileWithProcessingPlaceholder(fileId, events) ==
  [i \in 1..Len(events) |->
     IF hasFileAttachment(fileId, events[i])
       THEN stripFileFromEvent(fileId, ProcessingPlaceholder, events[i])
       ELSE events[i]]

\* stripExpiredFile once the file id was extracted from the error
stripExpiredFile(fileId, events) ==
  LET touched == {i \in 1..Len(events) : hasFileAttachment(fileId, events[i])}
      matching(att) == isFileRef(att, fileId)
      updatedHistory ==
        [i \in 1..Len(events) |->
           IF i \in touched
             THEN stripFileFromEvent(
                    fileId,
                    getExpiredMediaText(
                      SelectSeq(events[i].attachments, matching)),
                    events[i])
             ELSE events[i]]
  IN Repair(updatedHistory, fromEntries(events, touched, updatedHistory))

\* stripAllFileAttachments that drops the inline attachments of the events
\* it changes as well
stripAllAttachments(events) ==
  LET isFile(att) == att.kind = "file"
      touched == {i \in 1..Len(events) :
                    SelectSeq(events[i].attachments, isFile) # <<>>}
      updatedHistory ==
        [i \in 1..Len(events) |->
           IF i \in touched
             THEN [appendPlaceholder(
                     events[i],
                     getExpiredMediaText(
                       SelectSeq(events[i].attachments, isFile)))
                     EXCEPT !.attachments = <<>>]
             ELSE events[i]]
  IN Repair(updatedHistory, fromEntries(events, touched, updatedHistory))

stripAllFileAttachments(events) ==
  LET isFile(att) == att.kind = "file"
      notFile(att) == att.kind # "file"
      touched == {i \in 1..Len(events) :
                    SelectSeq(events[i].attachments, isFile) # <<>>}
      updatedHistory ==
        [i \in 1..Len(events) |->
           IF i \in touched
             THEN [appendPlaceholder(
                     events[i],
                     getExpiredMediaText(
                       SelectSeq(events[i].attachments, isFile)))
                     EXCEPT !.attachments = SelectSeq(@, notFile)]
             ELSE events[i]]
  IN Repair(updatedHistory, fromEntries(events, touched, updatedHistory))

\* ---- provider errors
\* an error of the provider: its status, the phrases of its message the
\* adapter looks for, the id following "File " and the type following
\* "Unsupported MIME type:" in the message
GeminiError(status, phrases, fileId, mimeType) ==
  [status |-> status, phrases |-> phrases, fileId |-> fileId,
   mimeType |-> mimeType]

NoError == GeminiError(0, {}, NoFile, NoMime)

\* what callGemini can reject with
ProviderErrors ==
  { GeminiError(400, {}, NoFile, NoMime),
    GeminiError(400, {"Unsupported MIME type"}, NoFile, MimeA),
    GeminiError(400, {"Unsupported MIME type"}, NoFile, MimeB),
    GeminiError(400, {"Unsupported MIME type"}, NoFile, NoMime),
    GeminiError(400, {"not in an ACTIVE state", "File"}, FileA, NoMime),
    GeminiError(400, {"not in an ACTIVE state"}, NoFile, NoMime),
    GeminiError(403, {"PERMISSION_DENIED", "File"}, FileA, NoMime),
    GeminiError(403, {"PERMISSION_DENIED", "File"}, FileB, NoMime),
    GeminiError(403, {"PERMISSION_DENIED", "File"}, FileUnknown, NoMime),
    GeminiError(403, {"PERMISSION_DENIED"}, NoFile, NoMime) }

extractFileIdFromError(error) == error.fileId

is403PermissionError(error) ==
  \/ error.status = 403
  \/ {"403", "PERMISSION_DENIED"} \subseteq error.phrases

isFileNotActiveError(error) ==
  \/ "not in an ACTIVE state" \in error.phrases
  \/ {"FAILED_PRECONDITION", "File"} \subseteq error.phrases

isUnsupportedMimeTypeError(error) == "Unsupported MIME type" \in error.phrases

extractUnsupportedMimeType(error) == error.mimeType

\* ---- the retry layer of callGemini
geminiProVersion == "gemini-3.1-pro-preview"
geminiFlashVersion == "gemini-3-flash-preview"
geminiProImageVersion == "gemini-3-pro-image-preview"
geminiFlashImageVersion == "gemini-2.5-flash-image"

\* the models buildReq puts in a request
RequestModels ==
  {geminiProVersion, geminiFlashVersion, geminiProImageVersion,
   geminiFlashImageVersion}

alternateModel(m) ==
  IF m = geminiProVersion THEN geminiFlashVersion
  ELSE IF m = geminiFlashVersion THEN geminiProVersion
  ELSE IF m = geminiProImageVersion THEN geminiFlashImageVersion
  ELSE IF m = geminiFlashImageVersion THEN geminiProImageVersion
  ELSE m

\* the status one rawCallGemini invocation settles with: RawOk when it
\* resolves, the status of the error otherwise
RawOk == 200
RawOutcomes == {RawOk, 400, 429, 500, 503}

\* is500Error that accepts every 5xx status
is500ErrorAny5xx(status) == status >= 500 /\ status <= 599

is500Error(status) == status = 500

\* conditionalRetry(is500Error)(RetryWaitMs, RetryTimes, rawCallGemini)
RetryWaitMs == 1000
RetryTimes == 4

\* for (let attempt = 0; attempt < MaxRepairAttempts; attempt++)
MaxRepairAttempts == 5

\* --------------------------------- history filters and request construction
\* GeminiMetadata; thoughtSignature is a sequence of characters
GeminiMetadata(responseId, thoughtSignature) ==
  [type |-> "gemini", responseId |-> responseId,
   thoughtSignature |-> thoughtSignature]

\* modelMetadata undefined or absent
NoMetadata == [type |-> "none", responseId |-> NoId, thoughtSignature |-> <<>>]

\* a GeminiHistoryEvent: the event with its modelMetadata
withMetadata(event, modelMetadata) ==
  [type |-> event.type, isOwn |-> event.isOwn, id |-> event.id,
   timestamp |-> event.timestamp, name |-> event.name, text |-> event.text,
   parameters |-> event.parameters, result |-> event.result,
   attachments |-> event.attachments, toolCallId |-> event.toolCallId,
   modelMetadata |-> modelMetadata]

\* String.prototype.trim
trim(text) ==
  LET solid == {i \in 1..Len(text) : text[i] \notin WhiteSpace}
      first == CHOOSE i \in solid : \A j \in solid : i <= j
      final == CHOOSE i \in solid : \A j \in solid : j <= i
  IN IF solid = {} THEN <<>> ELSE SubSeq(text, first, final)

\* history.filter(e => e.type === "tool_call")
allCallsOf(events) == SelectSeq(events, isToolCall)

\* allCalls.find(matches), NoId when there is none: the id of the first call
\* whose position is in matching
findCallId(allCalls, matching) ==
  IF matching = {} THEN NoId
  ELSE allCalls[CHOOSE i \in matching : \A j \in matching : i <= j].id

\* no reservation pass
reservedCallIdsOfNone(events) == {}

\* the reservation pass: the calls some tool_result names by toolCallId
reservedCallIdsOf(events) ==
  LET allCalls == allCallsOf(events)
  IN {events[i].toolCallId : i \in
        {j \in 1..Len(events) :
           /\ events[j].type = "tool_result"
           /\ events[j].toolCallId # NoId
           /\ \E k \in 1..Len(allCalls) :
                allCalls[k].id = events[j].toolCallId}}

\* the strict match that forgets which calls were answered already
strictMatchRepeatable(allCalls, e, processedStrictCalls) ==
  findCallId(allCalls, {k \in 1..Len(allCalls) :
                          allCalls[k].id = e.toolCallId})

\* the call a tool_result with a toolCallId is matched with
strictMatch(allCalls, e, processedStrictCalls) ==
  findCallId(allCalls, {k \in 1..Len(allCalls) :
                          /\ allCalls[k].id = e.toolCallId
                          /\ allCalls[k].id \notin processedStrictCalls})

\* the legacy match that forgets which calls were claimed already
legacyMatchRepeatable(allCalls, e, reservedCallIds, processedLegacyCalls) ==
  findCallId(allCalls, {k \in 1..Len(allCalls) :
                          /\ allCalls[k].name = e.name
                          /\ allCalls[k].timestamp < e.timestamp
                          /\ allCalls[k].id \notin reservedCallIds})

\* the call a tool_result without toolCallId claims
legacyMatch(allCalls, e, reservedCallIds, processedLegacyCalls) ==
  findCallId(allCalls, {k \in 1..Len(allCalls) :
                          /\ allCalls[k].name = e.name
                          /\ allCalls[k].timestamp < e.timestamp
                          /\ allCalls[k].id \notin reservedCallIds
                          /\ allCalls[k].id \notin processedLegacyCalls})

\* nothing filtered yet
NoPass == [kept |-> {}, claimed |-> <<>>, strict |-> {}, legacy |-> {}]

\* the filter pass over history[1..i]: the positions kept, the call each
\* kept tool_result was matched with, and the two processed sets
filterPass(events) ==
  LET allCalls == allCallsOf(events)
      reservedCallIds == reservedCallIdsOf(events)
      pass[i \in 0..Len(events)] ==
        IF i = 0
          THEN NoPass
        ELSE
          LET before == pass[i - 1]
              e == events[i]
              call == IF e.toolCallId # NoId
                        THEN strictMatch(allCalls, e, before.strict)
                        ELSE legacyMatch(allCalls, e, reservedCallIds,
                                         before.legacy)
          IN IF e.type # "tool_result"
               THEN [before EXCEPT !.kept = @ \cup {i}]
             ELSE IF call = NoId THEN before
             ELSE IF e.toolCallId # NoId
               THEN [before EXCEPT !.kept = @ \cup {i},
                                   !.claimed = Append(@, <<i, call>>),
                                   !.strict = @ \cup {call}]
             ELSE [before EXCEPT !.kept = @ \cup {i},
                                 !.claimed = Append(@, <<i, call>>),
                                 !.legacy = @ \cup {call}]
  IN pass[Len(events)]

\* the subsequence of events at the positions in keep
atPositions(events, keep) ==
  LET rank(i) == Cardinality({j \in keep : j <= i})
  IN [k \in 1..Cardinality(keep) |->
        events[CHOOSE i \in keep : rank(i) = k]]

\* filterOrphanedToolResults that stops at the first tool_result it removes
filterOrphanedToolResultsFirstOnly(events) ==
  LET dropped == (1..Len(events)) \ filterPass(events).kept
  IN IF dropped = {} THEN events
     ELSE atPositions(events,
                      (1..Len(events)) \
                        {CHOOSE i \in dropped : \A j \in dropped : i <= j})

filterOrphanedToolResults(events) ==
  atPositions(events, filterPass(events).kept)

\* filterInvalidToolCalls that only looks for a signature of length zero
filterInvalidToolCallsUntrimmed(events) ==
  LET valid(e) == ~(e.type = "tool_call" /\
                    e.modelMetadata.thoughtSignature = <<>>)
  IN SelectSeq(events, valid)

filterInvalidToolCalls(events) ==
  LET valid(e) == ~(e.type = "tool_call" /\
                    trim(e.modelMetadata.thoughtSignature) = <<>>)
  IN SelectSeq(events, valid)

\* mime types Gemini rejects up front: missing, blank, octet-stream
isUnsupportedGeminiMimeType(mimeType) ==
  mimeType \in {NoMime, "", "application/octet-stream"}

filterUnsupportedGeminiAttachments(events) ==
  LET supported(att) == ~isUnsupportedGeminiMimeType(att.mimeType)
  IN [i \in 1..Len(events) |->
        [events[i] EXCEPT !.attachments = SelectSeq(@, supported)]]

\* ---- request construction (buildReq)
\* a Part of the request: kind is the field it carries (text, functionCall,
\* functionResponse, inlineData, fileData); event is the id of the history
\* event it was made from (NoId: from none)
RequestPart(kind, event, text, thoughtSignature) ==
  [kind |-> kind, event |-> event, text |-> text,
   thoughtSignature |-> thoughtSignature]

Content(role, parts) == [role |-> role, parts |-> parts]

wrapModelContent(parts) == Content("model", parts)

wrapUserContent(parts) == Content("user", parts)

attachmentsToParts(e) ==
  [i \in 1..Len(e.attachments) |->
     RequestPart(IF e.attachments[i].kind = "inline"
                   THEN "inlineData" ELSE "fileData", e.id, <<>>, <<>>)]

historyEventToContent(e) ==
  LET signature == e.modelMetadata.thoughtSignature
      textPart == RequestPart("text", e.id, e.text, <<>>)
      ownText == RequestPart("text", e.id, e.text, signature)
  IN CASE e.type = "participant_utterance" ->
            wrapUserContent((IF e.text = <<>> THEN <<>> ELSE <<textPart>>)
                            \o attachmentsToParts(e))
       [] e.type = "own_utterance" ->
            wrapModelContent(
              IF e.text = <<>> /\ e.attachments = <<>> THEN <<ownText>>
              ELSE (IF e.text = <<>> THEN <<>> ELSE <<ownText>>)
                   \o attachmentsToParts(e))
       [] e.type = "tool_call" ->
            wrapModelContent(
              <<RequestPart("functionCall", e.id, <<e.name>>, signature)>>)
       [] e.type = "tool_result" ->
            wrapUserContent(
              <<RequestPart("functionResponse", e.id, e.result, <<>>)>>
              \o attachmentsToParts(e))
       [] e.type = "do_nothing" ->
            wrapModelContent(<<RequestPart("text", e.id, <<>>, signature)>>)

\* contents.flatMap(c => c.parts)
flatParts(contents) ==
  LET upTo[i \in 0..Len(contents)] ==
        IF i = 0 THEN <<>> ELSE upTo[i - 1] \o contents[i].parts
  IN upTo[Len(contents)]

combineContent(contents) ==
  Content(IF \E i \in 1..Len(contents) : contents[i].role = "model"
            THEN "model" ELSE "user",
          flatParts(contents))

\* the responseId of the model response the event came with, else its id
getOriginalId(e) ==
  IF e.modelMetadata.responseId # NoId
    THEN e.modelMetadata.responseId ELSE e.id

\* Object.values(groupBy(getOriginalId)(events)): one group per key, in the
\* order the keys first occur; a group holds all events of its key
groupBy(events) ==
  LET firsts == {i \in 1..Len(events) :
                   \A j \in 1..(i - 1) :
                     getOriginalId(events[j]) # getOriginalId(events[i])}
      heads == atPositions(events, firsts)
  IN [k \in 1..Len(heads) |->
        LET sameKey(e) == getOriginalId(e) = getOriginalId(heads[k])
        IN SelectSeq(events, sameKey)]

ConversationStarted ==
  Content("user", <<RequestPart("text", NoId, <<"<conversation started>">>,
                                <<>>)>>)

fixStart(contents) ==
  IF contents = <<>> \/ contents[1].role # "user"
    THEN <<ConversationStarted>> \o contents ELSE contents

\* the contents of buildReq(...)(events)
buildReq(events) ==
  LET groups == groupBy(events)
  IN fixStart([k \in 1..Len(groups) |->
                 combineContent([i \in 1..Len(groups[k]) |->
                                   historyEventToContent(groups[k][i])])])

\* ---- the histories geminiAgentCaller is handed
ValidSignature == <<"s", "i", "g">>
BlankSignature == <<" ", "\t">>
FirstCallId == 11
SecondCallId == 12
UnknownCallId == 13
ResponseId == 21

\* an event of a caller's history before it gets its place: tool calls keep
\* their id, every other event gets its position as id
toolCallAt(id, name, timestamp, modelMetadata) ==
  withMetadata([toolUseTurnWithMetadata([name |-> name, args |-> ValidArgs],
                                        id)
                  EXCEPT !.timestamp = timestamp], modelMetadata)

toolResultAt(name, timestamp, toolCallId) ==
  withMetadata([toolResultTurn(ToolResultValue(toolCallId, name, <<"res">>,
                                               <<>>), NoId)
                  EXCEPT !.timestamp = timestamp], NoMetadata)

participantAt(timestamp, atts) ==
  withMetadata([participantUtteranceWith(NoId, atts)
                  EXCEPT !.timestamp = timestamp], NoMetadata)

ownUtteranceAt(timestamp, modelMetadata) ==
  withMetadata([ownUtteranceTurnWithMetadata(NoId)
                  EXCEPT !.timestamp = timestamp, !.text = <<"text">>],
               modelMetadata)

placed(template, i) ==
  IF template.type = "tool_call" THEN template
  ELSE [template EXCEPT !.id = i]

\* the histories of at most maxLen events drawn from templates in which no
\* two events share an id
HistoriesOf(templates, maxLen) ==
  LET drawn == UNION {[1..n -> templates] : n \in 0..maxLen}
      eventsOf(s) == [i \in 1..Len(s) |-> placed(s[i], i)]
  IN {eventsOf(s) : s \in {t \in drawn :
                            \A i, j \in 1..Len(t) :
                              (i < j /\ t[i].type = "tool_call")
                                => t[i].id # t[j].id}}

\* tool calls and tool results with and without toolCallId, earlier and
\* later than the calls, of two tools
FilterTemplates ==
  {toolCallAt(FirstCallId, "toolA", t,
              GeminiMetadata(ResponseId, ValidSignature)) : t \in {1, 3, 5}}
  \cup {toolCallAt(SecondCallId, n, 2,
                   GeminiMetadata(ResponseId, ValidSignature)) :
          n \in {"toolA", "toolB"}}
  \cup {toolResultAt("toolA", 3, id) :
          id \in {FirstCallId, SecondCallId, UnknownCallId}}
  \cup {toolResultAt(n, 3, NoId) : n \in {"toolA", "toolB"}}
  \cup {participantAt(0, <<>>)}

FilterHistories == HistoriesOf(FilterTemplates, MaxFilterHistory)

\* the mime type filterUnsupportedGeminiAttachments drops
OctetStream == "application/octet-stream"

\* utterances of both sides, one of them with an attachment the filters drop
\* next to one the provider may reject, tool calls of one model response
\* with a valid, a blank and no thoughtSignature, and the tool_result of the
\* call
CallerTemplates ==
  { participantAt(1, <<inlineAttachment(OctetStream),
                       fileAttachment(MimeA, FileA)>>),
    ownUtteranceAt(1, GeminiMetadata(ResponseId, ValidSignature)),
    ownUtteranceAt(1, NoMetadata),
    toolCallAt(FirstCallId, "toolA", 1,
               GeminiMetadata(ResponseId, ValidSignature)),
    toolCallAt(FirstCallId, "toolA", 1,
               GeminiMetadata(ResponseId, BlankSignature)),
    toolCallAt(FirstCallId, "toolA", 1, NoMetadata),
    toolResultAt("toolA", 2, FirstCallId) }

CallerHistories == HistoriesOf(CallerTemplates, MaxCallerHistory)

\* ------------------------------------------------------------------ skills
runCommandToolName == "run_command"
learnSkillToolName == "learn_skill"

\* params a run_command call can carry for an inner tool: accepted, of the
\* wrong type, accepted but with a field the schema does not declare
UnknownFieldArgs == "valid_args_and_unknown_field"
SkillParams == {ValidArgs, InvalidArgs, UnknownFieldArgs}

\* a tool of a skill; parameters is the set of params its schema accepts
\* (a zod object strips the fields it does not declare)
skillTool(name) ==
  [name |-> name, description |-> <<name, " description">>,
   parameters |-> {ValidArgs, UnknownFieldArgs}]

Skill(name, skillTools) ==
  [name |-> name, description |-> <<name, " skill">>,
   instructions |-> <<name, " instructions">>, tools |-> skillTools]

weatherSkill == Skill("weather", <<skillTool("get_forecast")>>)
testSkill == Skill("test", <<skillTool("test_tool"), skillTool("get_forecast")>>)

\* AgentSpec.skills: undefined or empty, one skill, two skills
SkillLists == {<<>>, <<weatherSkill>>, <<weatherSkill, testSkill>>}

\* the arguments of a function call: for run_command (command is the string
\* split at "/", params), for learn_skill (skillName), for a declared tool
\* (params), or of no declared shape
SkillArgs(kind, command, skillParams, skillName) ==
  [kind |-> kind, command |-> command, params |-> skillParams,
   skillName |-> skillName]

Commands ==
  { <<"weather">>, <<"weather", "get_forecast">>, <<"weather", "test_tool">>,
    <<"test", "test_tool">>, <<"unknown", "get_forecast">>,
    <<"weather", "">>, <<"weather", "get_forecast", "extra">>,
    <<"constructor", "get_forecast">> }

SkillNames == {"weather", "test", "unknown", "", "constructor", "toString"}

AllSkillArgs ==
  {SkillArgs("run", cmd, p, "none") : cmd \in Commands, p \in SkillParams}
  \cup {SkillArgs("learn", <<>>, "none", n) : n \in SkillNames}
  \cup {SkillArgs("tool", <<>>, p, "none") : p \in SkillParams}
  \cup {SkillArgs("invalid", <<>>, "none", "none")}

\* z.object(...) of a tool that is dispatched by name
runCommandParameters == {a \in AllSkillArgs : a.kind = "run"}
learnSkillParameters == {a \in AllSkillArgs : a.kind = "learn"}
toolParameters == {a \in AllSkillArgs : a.kind = "tool" /\ a.params = ValidArgs}

\* the tool declared at the top level of the AgentSpec
topLevelTool == [name |-> "doSomethingUnique", parameters |-> toolParameters]

\* the keys every object inherits from Object.prototype
ObjectPrototypeKeys ==
  {"constructor", "toString", "valueOf", "hasOwnProperty", "__proto__"}

\* Object.fromEntries(entries)[key]: the value of the last entry with the
\* key; for a key that is not an own property, what Object.prototype holds
\* under it ("inherited"), else undefined
NoEntry == [kind |-> "undefined", index |-> 0]

lookup(keys, key) ==
  LET own == {i \in 1..Len(keys) : keys[i] = key}
  IN IF own # {}
       THEN [kind |-> "own",
             index |-> CHOOSE i \in own : \A j \in own : j <= i]
     ELSE IF key \in ObjectPrototypeKeys
       THEN [kind |-> "inherited", index |-> 0]
     ELSE NoEntry

\* skills.map(s => s.name)
skillNamesOf(skillList) == [i \in 1..Len(skillList) |-> skillList[i].name]

\* tool.parameters.strict()
strictPassthrough(parameters) == parameters

strict(parameters) == parameters \ {UnknownFieldArgs}

\* what a handler of createSkillTools does up to its return or its await:
\* it returns a string, throws, or calls the handler of a skill's tool
HandlerReturn(text) ==
  [kind |-> "return", result |-> text, skill |-> "none", tool |-> "none",
   args |-> "none"]

HandlerThrow(error) ==
  [kind |-> "throw", result |-> <<error>>, skill |-> "none", tool |-> "none",
   args |-> "none"]

HandlerCalls(skillName, toolName, args) ==
  [kind |-> "handler", result |-> <<>>, skill |-> skillName,
   tool |-> toolName, args |-> args]

\* the handler of run_command
runCommand(skillList, args) ==
  LET skillNames == skillNamesOf(skillList)
      skillName == args.command[1]
      toolName == args.command[2]
      skill == lookup(skillNames, skillName)
      toolNames == IF skill.kind = "own"
                     THEN skillNamesOf(skillList[skill.index].tools)
                     ELSE <<>>
      found == lookup(toolNames, toolName)
      parseResult ==
        parseWithCatch(strict(skillList[skill.index].tools[found.index]
                                .parameters), args.params)
  IN IF Len(args.command) < 2
       THEN HandlerReturn(<<"Invalid command format", args.command,
                            skillNames>>)
     ELSE IF skill.kind = "undefined"
       THEN HandlerReturn(<<"Skill not found", skillName, skillNames>>)
     ELSE IF found.kind # "own"
       THEN HandlerReturn(<<"Tool not found in skill", toolName, skillName>>)
     ELSE IF ~parseResult.ok
       THEN HandlerReturn(<<"Invalid parameters for", skillName, toolName,
                            parseResult.error>>)
     ELSE HandlerCalls(skillName, toolName, parseResult.result)

\* the JSON schema of a zod schema
zodToGeminiParameters(parameters) == <<"OBJECT", parameters>>

\* JSON.stringify of the details of a skill
skillDetails(skill) ==
  <<"JSON",
    [name |-> skill.name, description |-> skill.description,
     instructions |-> skill.instructions,
     tools |-> [i \in 1..Len(skill.tools) |->
                  [name |-> skill.tools[i].name,
                   description |-> skill.tools[i].description,
                   parameters |->
                     zodToGeminiParameters(skill.tools[i].parameters)]]]>>

\* the handler of learn_skill
learnSkill(skillList, args) ==
  LET skillNames == skillNamesOf(skillList)
      skill == lookup(skillNames, args.skillName)
  IN IF skill.kind = "undefined"
       THEN HandlerReturn(<<"Skill not found", args.skillName, skillNames>>)
     ELSE IF skill.kind = "inherited"
       THEN HandlerThrow("TypeError: skill.tools is undefined")
     ELSE HandlerReturn(skillDetails(skillList[skill.index]))

\* createSkillTools that also exposes the tools of the skills by name
createSkillToolsExposed(skillList) ==
  << [name |-> runCommandToolName, parameters |-> runCommandParameters],
     [name |-> learnSkillToolName, parameters |-> learnSkillParameters],
     [name |-> "get_forecast", parameters |-> {a \in AllSkillArgs : a.kind = "tool"}] >>

createSkillTools(skillList) ==
  << [name |-> runCommandToolName, parameters |-> runCommandParameters],
     [name |-> learnSkillToolName, parameters |-> learnSkillParameters] >>

\* allTools of runAbstractAgent
allToolsWith(skillList) ==
  IF Len(skillList) > 0
    THEN <<topLevelTool>> \o createSkillTools(skillList)
    ELSE <<topLevelTool>>

\* function calls of a provider response in a run with skills
SkillFunctionCalls ==
  {[name |-> runCommandToolName, args |-> a, id |-> 1] :
     a \in {b \in AllSkillArgs : b.kind \in {"run", "invalid"}}}
  \cup {[name |-> learnSkillToolName, args |-> a, id |-> 1] :
          a \in {b \in AllSkillArgs : b.kind \in {"learn", "invalid"}}}
  \cup {[name |-> n, args |-> SkillArgs("tool", <<>>, ValidArgs, "none"),
         id |-> 1] :
          n \in {"get_forecast", "test_tool", "weather/get_forecast",
                 "doSomethingUnique"}}

\* no function call, no outcome yet
NoCall == [name |-> NoName, args |-> SkillArgs("invalid", <<>>, "none", "none"),
           id |-> NoId]

NoOutcome == [kind |-> "pending", result |-> <<>>]

\* an invocation of a handler: of a tool dispatched by name (skill "none") or
\* of a tool of a skill, with the arguments it was handed
HandlerRun(skillName, toolName, args) ==
  [skill |-> skillName, tool |-> toolName, args |-> args]

\* ---- the parts of the state a specification does not move
LoopIdle ==
  /\ history = <<>>
  /\ initialHistory = <<>>
  /\ maxIterations = 0
  /\ toolFree = TRUE
  /\ c = 0
  /\ pc = "idle"
  /\ snapshot = <<>>
  /\ output = <<>>
  /\ pos = 1
  /\ nextId = 1
  /\ modelCalls = 0
  /\ callbackCalls = 0
  /\ invoked = <<>>
  /\ inFlight = {}
  /\ seen = {}
  /\ handlerPushed = {}
  /\ participantAppends = 0
  /\ thrown = "none"

RecoveryIdle ==
  /\ stored = <<>>
  /\ callEvents = <<>>
  /\ currentEvents = <<>>
  /\ currentError = NoError
  /\ allReplacements = NoReplacements
  /\ attempt = 0
  /\ rpc = "idle"
  /\ sent = <<>>
  /\ numRequests = 0
  /\ rewrites = <<>>
  /\ storedAtSend = <<>>
  /\ causes = <<>>

MappingIdle ==
  /\ geminiOutput = <<>>
  /\ mappedEvents = <<>>
  /\ mpc = "idle"

RetryIdle ==
  /\ reqModel = "none"
  /\ rawRequests = <<>>
  /\ waits = <<>>
  /\ gpc = "idle"

CallerIdle ==
  /\ given = <<>>
  /\ orphanPass = NoPass
  /\ orphanFree = <<>>

SkillIdle ==
  /\ skills = <<>>
  /\ skillCall = NoCall
  /\ handlerRuns = <<>>
  /\ skillOutcome = NoOutcome
  /\ spc = "idle"

TokenIdle ==
  /\ tokenEvents = <<>>
  /\ tokenEstimates = <<>>
  /\ tpc = "idle"

AdapterIdle ==
  /\ TokenIdle /\ SkillIdle /\ CallerIdle
  /\ RecoveryIdle /\ MappingIdle /\ RetryIdle

\* ------------------------------------------------------------------- Init
InitialHistories ==
  { <<>>,
    <<participantUtteranceTurn(1)>>,
    <<participantUtteranceTurn(1), ownUtteranceTurnWithMetadata(2)>> }

Init ==
  /\ history \in InitialHistories
  /\ initialHistory = history
  /\ maxIterations \in 0..MaxIterationsBound
  /\ toolFree \in BOOLEAN
  /\ c = 0
  /\ pc = "iterate"
  /\ snapshot = <<>>
  /\ output = <<>>
  /\ pos = 1
  /\ nextId = Len(history) + 1
  /\ modelCalls = 0
  /\ callbackCalls = 0
  /\ invoked = <<>>
  /\ inFlight = {}
  /\ seen = {}
  /\ handlerPushed = {}
  /\ participantAppends = 0
  /\ thrown = "none"
  /\ AdapterIdle

\* ---------------------------------------------------------------- actions
\* where the run goes once tool call number k of this iteration is the next
\* one to dispatch: to the termination check when none is left
AfterCall(k, events) ==
  IF k > Len(functionCallsOf(events)) THEN "check" ELSE "dispatch"

\* Iterate that tests the cap before incrementing the counter
IterateOffByOne ==
  /\ pc = "iterate"
  /\ c' = c + 1
  /\ IF c > maxIterations
       THEN /\ callbackCalls' = callbackCalls + 1
            /\ pc' = "max"
            /\ UNCHANGED <<snapshot, seen, modelCalls>>
       ELSE /\ snapshot' = history
            /\ seen' = seen \cup Ids(history)
            /\ modelCalls' = modelCalls + 1
            /\ pc' = "model"
            /\ UNCHANGED callbackCalls
  /\ UNCHANGED <<history, maxIterations, toolFree, initialHistory, output,
                 pos, nextId, invoked, inFlight, handlerPushed,
                 participantAppends, thrown>>
  /\ UNCHANGED adapterVars

\* Iterate that keeps the history read in the first iteration
IterateStaleSnapshot ==
  /\ pc = "iterate"
  /\ c' = c + 1
  /\ IF c + 1 > maxIterations
       THEN /\ callbackCalls' = callbackCalls + 1
            /\ pc' = "max"
            /\ UNCHANGED <<snapshot, seen, modelCalls>>
       ELSE /\ snapshot' = (IF c = 0 THEN history ELSE snapshot)
            /\ seen' = seen \cup Ids(snapshot')
            /\ modelCalls' = modelCalls + 1
            /\ pc' = "model"
            /\ UNCHANGED callbackCalls
  /\ UNCHANGED <<history, maxIterations, toolFree, initialHistory, output,
                 pos, nextId, invoked, inFlight, handlerPushed,
                 participantAppends, thrown>>
  /\ UNCHANGED adapterVars

\* Iterate without the iteration cap
IterateNoCap ==
  /\ pc = "iterate"
  /\ c' = c + 1
  /\ snapshot' = history
  /\ seen' = seen \cup Ids(history)
  /\ modelCalls' = modelCalls + 1
  /\ pc' = "model"
  /\ UNCHANGED <<history, maxIterations, toolFree, initialHistory, output,
                 pos, nextId, invoked, inFlight, handlerPushed,
                 participantAppends, thrown, callbackCalls>>
  /\ UNCHANGED adapterVars

\* while (true) { c++; if (c > maxIterations) {...; return}; getHistory;
\* callModel(history) is started
Iterate ==
  /\ pc = "iterate"
  /\ c' = c + 1
  /\ IF c + 1 > maxIterations
       THEN /\ callbackCalls' = callbackCalls + 1
            /\ pc' = "max"
            /\ UNCHANGED <<snapshot, seen, modelCalls>>
       ELSE /\ snapshot' = history
            /\ seen' = seen \cup Ids(history)
            /\ modelCalls' = modelCalls + 1
            /\ pc' = "model"
            /\ UNCHANGED callbackCalls
  /\ UNCHANGED <<history, maxIterations, toolFree, initialHistory, output,
                 pos, nextId, invoked, inFlight, handlerPushed,
                 participantAppends, thrown>>
  /\ UNCHANGED adapterVars

\* callModel resolves with the new events
ModelReturns ==
  /\ pc = "model"
  /\ \E response \in ModelResponses :
       /\ Len(functionCallsOf(history)) + NumCalls(response) <= MaxFunctionCalls
       /\ output' = geminiAgentCaller(response, nextId)
       /\ nextId' = nextId + Len(output')
  /\ pos' = 1
  /\ pc' = "output"
  /\ UNCHANGED <<history, maxIterations, toolFree, initialHistory, c,
                 snapshot, modelCalls, callbackCalls, invoked, inFlight,
                 seen, handlerPushed, participantAppends, thrown>>
  /\ UNCHANGED adapterVars

\* callModel rejects (recovery exhausted, non-recoverable provider error)
ModelRejects ==
  /\ pc = "model"
  /\ pc' = "rejected"
  /\ thrown' = "provider error"
  /\ UNCHANGED <<history, maxIterations, toolFree, initialHistory, c,
                 snapshot, output, pos, nextId, modelCalls, callbackCalls,
                 invoked, inFlight, seen, handlerPushed, participantAppends>>
  /\ UNCHANGED adapterVars

\* OutputEvent that walks the returned events from the last to the first
OutputEventReversed ==
  /\ pc = "output"
  /\ history' = Append(history, output[Len(output) - pos + 1])
  /\ IF pos < Len(output)
       THEN pos' = pos + 1 /\ pc' = "output"
       ELSE pos' = 1 /\ pc' = AfterCall(1, output)
  /\ UNCHANGED <<maxIterations, toolFree, initialHistory, c, snapshot,
                 output, nextId, modelCalls, callbackCalls, invoked,
                 inFlight, seen, handlerPushed, participantAppends, thrown>>
  /\ UNCHANGED adapterVars

\* sideEffect(each(outputEvent)): one awaited outputEvent per returned event
OutputEvent ==
  /\ pc = "output"
  /\ history' = Append(history, output[pos])
  /\ IF pos < Len(output)
       THEN pos' = pos + 1 /\ pc' = "output"
       ELSE pos' = 1 /\ pc' = AfterCall(1, output)
  /\ UNCHANGED <<maxIterations, toolFree, initialHistory, c, snapshot,
                 output, nextId, modelCalls, callbackCalls, invoked,
                 inFlight, seen, handlerPushed, participantAppends, thrown>>
  /\ UNCHANGED adapterVars

\* Dispatch that starts a handler and goes on to the next call without
\* awaiting it
DispatchWithoutAwait ==
  /\ pc = "dispatch"
  /\ LET fc == functionCallsOf(output)[pos]
         r == callToResult(allTools, fc)
     IN \/ /\ r.kind = "throw"
           /\ pc' = "rejected"
           /\ thrown' = r.error
           /\ UNCHANGED <<history, pos, nextId, invoked, inFlight>>
        \/ /\ r.kind = "return"
           /\ history' = Append(history, toolResultTurn(r.value, nextId))
           /\ nextId' = nextId + 1
           /\ pos' = pos + 1
           /\ pc' = AfterCall(pos + 1, output)
           /\ UNCHANGED <<invoked, inFlight, thrown>>
        \/ /\ r.kind = "handler"
           /\ invoked' = Append(invoked, <<fc.id, fc.name, r.args>>)
           /\ inFlight' = inFlight \cup {fc.id}
           /\ pos' = pos + 1
           /\ pc' = AfterCall(pos + 1, output)
           /\ UNCHANGED <<history, nextId, thrown>>
  /\ UNCHANGED <<maxIterations, toolFree, initialHistory, c, snapshot,
                 output, modelCalls, callbackCalls, seen, handlerPushed,
                 participantAppends>>
  /\ UNCHANGED adapterVars

\* each(pipe(callToResult(tools), toolResultTurn, outputEvent)) for the next
\* tool call, up to the handler call
Dispatch ==
  /\ pc = "dispatch"
  /\ LET fc == functionCallsOf(output)[pos]
         r == callToResult(allTools, fc)
     IN \/ /\ r.kind = "throw"
           /\ pc' = "rejected"
           /\ thrown' = r.error
           /\ UNCHANGED <<history, pos, nextId, invoked, inFlight>>
        \/ /\ r.kind = "return"
           /\ history' = Append(history, toolResultTurn(r.value, nextId))
           /\ nextId' = nextId + 1
           /\ pos' = pos + 1
           /\ pc' = AfterCall(pos + 1, output)
           /\ UNCHANGED <<invoked, inFlight, thrown>>
        \/ /\ r.kind = "handler"
           /\ invoked' = Append(invoked, <<fc.id, fc.name, r.args>>)
           /\ inFlight' = inFlight \cup {fc.id}
           /\ pc' = "handler"
           /\ UNCHANGED <<history, pos, nextId, thrown>>
  /\ UNCHANGED <<maxIterations, toolFree, initialHistory, c, snapshot,
                 output, modelCalls, callbackCalls, seen, handlerPushed,
                 participantAppends>>
  /\ UNCHANGED adapterVars

\* a running handler pushes a participant event into the history store
HandlerPushes ==
  /\ pc = "handler"
  /\ Cardinality(handlerPushed) + participantAppends < MaxConcurrentAppends
  /\ history' = Append(history, participantUtteranceTurn(nextId))
  /\ handlerPushed' = handlerPushed \cup {nextId}
  /\ nextId' = nextId + 1
  /\ UNCHANGED <<maxIterations, toolFree, initialHistory, c, pc, snapshot,
                 output, pos, modelCalls, callbackCalls, invoked, inFlight,
                 seen, participantAppends, thrown>>
  /\ UNCHANGED adapterVars

\* the handler resolves: the value is validated, turned into a tool_result
\* and appended
HandlerResolves ==
  /\ pc = "handler"
  /\ LET fc == functionCallsOf(output)[pos]
     IN \E out \in HandlerReturns :
          LET r == callToResultAfterHandler(fc, out)
          IN /\ inFlight' = inFlight \ {fc.id}
             /\ \/ /\ r.kind = "throw"
                   /\ pc' = "rejected"
                   /\ thrown' = r.error
                   /\ UNCHANGED <<history, pos, nextId>>
                \/ /\ r.kind = "return"
                   /\ history' = Append(history,
                                        toolResultTurn(r.value, nextId))
                   /\ nextId' = nextId + 1
                   /\ pos' = pos + 1
                   /\ pc' = AfterCall(pos + 1, output)
                   /\ UNCHANGED thrown
  /\ UNCHANGED <<maxIterations, toolFree, initialHistory, c, snapshot,
                 output, modelCalls, callbackCalls, invoked, seen,
                 handlerPushed, participantAppends>>
  /\ UNCHANGED adapterVars

\* HandlerThrows that appends a tool_result with the error before rejecting
HandlerThrowsReported ==
  /\ pc = "handler"
  /\ inFlight' = inFlight \ {functionCallsOf(output)[pos].id}
  /\ history' =
       Append(history,
              toolResultTurn(
                ToolResultValue(functionCallsOf(output)[pos].id,
                                functionCallsOf(output)[pos].name,
                                <<"handler error">>, <<>>), nextId))
  /\ nextId' = nextId + 1
  /\ pc' = "rejected"
  /\ thrown' = "handler error"
  /\ UNCHANGED <<maxIterations, toolFree, initialHistory, c, snapshot,
                 output, pos, modelCalls, callbackCalls, invoked, seen,
                 handlerPushed, participantAppends>>
  /\ UNCHANGED adapterVars

\* the handler's promise rejects
HandlerThrows ==
  /\ pc = "handler"
  /\ inFlight' = inFlight \ {functionCallsOf(output)[pos].id}
  /\ pc' = "rejected"
  /\ thrown' = "handler error"
  /\ UNCHANGED <<history, maxIterations, toolFree, initialHistory, c,
                 snapshot, output, pos, nextId, modelCalls, callbackCalls,
                 invoked, seen, handlerPushed, participantAppends>>
  /\ UNCHANGED adapterVars

\* shouldStop that ignores the tool calls of the iteration
shouldStopIgnoringToolCalls(events, current) == last(current).isOwn

\* if (!output.some(tool_call) && last(await getHistory()).isOwn) return
shouldStop(events, current) ==
  /\ ~(\E i \in 1..Len(events) : events[i].type = "tool_call")
  /\ last(current).isOwn

\* TerminationCheck that tests the cap ahead of the termination condition
TerminationCheckCapFirst ==
  /\ pc = "check"
  /\ IF c >= maxIterations
       THEN /\ callbackCalls' = callbackCalls + 1
            /\ pc' = "max"
       ELSE /\ pc' = IF shouldStop(output, history) THEN "done" ELSE "iterate"
            /\ UNCHANGED callbackCalls
  /\ UNCHANGED <<history, maxIterations, toolFree, initialHistory, c,
                 snapshot, output, pos, nextId, modelCalls, invoked,
                 inFlight, seen, handlerPushed, participantAppends, thrown>>
  /\ UNCHANGED adapterVars

TerminationCheck ==
  /\ pc = "check"
  /\ pc' = IF shouldStop(output, history) THEN "done" ELSE "iterate"
  /\ UNCHANGED <<history, maxIterations, toolFree, initialHistory, c,
                 snapshot, output, pos, nextId, modelCalls, callbackCalls,
                 invoked, inFlight, seen, handlerPushed, participantAppends,
                 thrown>>
  /\ UNCHANGED adapterVars

Running == pc \notin {"idle", "done", "max", "rejected"}

\* a participant's message reaches the history store while the run is
\* suspended (model call or handler in flight, between two awaited appends)
ParticipantAppends ==
  /\ Running
  /\ Cardinality(handlerPushed) + participantAppends < MaxConcurrentAppends
  /\ history' = Append(history, participantUtteranceTurn(nextId))
  /\ nextId' = nextId + 1
  /\ participantAppends' = participantAppends + 1
  /\ UNCHANGED <<maxIterations, toolFree, initialHistory, c, pc, snapshot,
                 output, pos, modelCalls, callbackCalls, invoked, inFlight,
                 seen, handlerPushed, thrown>>
  /\ UNCHANGED adapterVars

\* the steps of the run itself
runAbstractAgent ==
  \/ Iterate
  \/ ModelReturns
  \/ ModelRejects
  \/ OutputEvent
  \/ Dispatch
  \/ HandlerPushes
  \/ HandlerResolves
  \/ HandlerThrows
  \/ TerminationCheck

Next == runAbstractAgent \/ ParticipantAppends

Spec == Init /\ [][Next]_vars

\* runs with tools = [] whose provider emits no function call: the output
\* holds no tool_call, so handleFunctionCalls dispatches nothing
ToolFreeInit == Init /\ toolFree

runToolFreeAgent ==
  \/ Iterate
  \/ ModelReturns
  \/ ModelRejects
  \/ OutputEvent
  \/ TerminationCheck

ToolFreeNext == runToolFreeAgent \/ ParticipantAppends

\* every suspended step of the run is eventually resumed: the event loop
\* resumes each continuation and the awaited promises settle
ToolFreeSpec ==
  ToolFreeInit /\ [][ToolFreeNext]_vars /\ WF_vars(runToolFreeAgent)

\* ------------------------------------- one model call: history-repair recovery
\* callGeminiWithFixHistory for one model call.  A step is the settlement of
\* the callGemini request in flight together with the synchronous code up to
\* the next await.  The provider may answer any request with output or with
\* any of ProviderErrors.
RecoveryInit ==
  /\ LoopIdle
  /\ SkillIdle
  /\ TokenIdle
  /\ CallerIdle
  /\ MappingIdle
  /\ RetryIdle
  /\ stored \in GeminiHistories
  /\ callEvents = stored
  /\ currentEvents = stored
  /\ currentError = NoError
  /\ allReplacements = NoReplacements
  /\ attempt = 0
  /\ rpc = "first"
  /\ sent = stored
  /\ numRequests = 1
  /\ rewrites = <<>>
  /\ storedAtSend = stored
  /\ causes = <<>>

RecoveryFrame ==
  UNCHANGED <<callEvents, loopVars, mappingVars, retryVars,
                 callerVars,
                 skillVars,
                 tokenVars>>

\* what a repair removed: the attachments of a mime type ("mime"), the
\* references to a file ("expired", "notActive"), every file ("allFiles":
\* value is the file id no attachment referenced)
Cause(kind, value) == [kind |-> kind, value |-> value]

\* throw error
Raise(error) ==
  /\ rpc' = "raised"
  /\ currentError' = error
  /\ UNCHANGED <<currentEvents, allReplacements, attempt, sent, numRequests,
                 storedAtSend, causes>>

\* the repair is taken over and callGemini(eventsToRequest(currentEvents)) is
\* issued
SendRepaired(repair, cause, error, a, where) ==
  /\ causes' = Append(causes, cause)
  /\ allReplacements' = ObjectAssign(allReplacements, repair.replacements)
  /\ currentEvents' = repair.updatedHistory
  /\ sent' = repair.updatedHistory
  /\ numRequests' = numRequests + 1
  /\ storedAtSend' = stored
  /\ currentError' = error
  /\ attempt' = a
  /\ rpc' = where

\* callGemini(eventsToRequest(currentEvents)) is issued as it is
SendAgain(error, a, where) ==
  /\ sent' = currentEvents
  /\ numRequests' = numRequests + 1
  /\ storedAtSend' = stored
  /\ currentError' = error
  /\ attempt' = a
  /\ rpc' = where
  /\ UNCHANGED <<currentEvents, allReplacements, causes>>

\* one pass of the loop body of stripAllUnsupportedMimeTypes up to its await
MimeAttempt(error, a) ==
  LET mimeType == extractUnsupportedMimeType(error)
  IN IF mimeType = NoMime THEN Raise(error)
     ELSE SendRepaired(stripAttachmentsByMimeType(mimeType, currentEvents),
                       Cause("mime", mimeType), error, a, "mime")

\* one pass of the loop body of stripAllExpiredFiles up to its await
ExpiredAttempt(error, a) ==
  LET fileId == extractFileIdFromError(error)
      fixed == stripExpiredFile(fileId, currentEvents)
  IN IF fileId = NoFile THEN Raise(error)
     ELSE IF DOMAIN fixed.replacements = {}
       THEN SendRepaired(stripAllFileAttachments(currentEvents),
                         Cause("allFiles", fileId), error, a, "nuclear")
     ELSE SendRepaired(fixed, Cause("expired", fileId), error, a, "expired")

\* the catch of callGeminiWithFixHistory
FirstRequestRejects ==
  /\ rpc = "first"
  /\ \E error \in ProviderErrors :
       IF isFileNotActiveError(error) THEN SendAgain(NoError, 0, "notActive")
       ELSE IF isUnsupportedMimeTypeError(error) THEN MimeAttempt(error, 0)
       ELSE IF ~is403PermissionError(error) THEN Raise(error)
       ELSE ExpiredAttempt(error, 0)
  /\ UNCHANGED <<stored, rewrites>>
  /\ RecoveryFrame

\* the catch in the loop of stripAllNotActiveFiles
NotActiveRetryRejects ==
  /\ rpc = "notActive"
  /\ \E error \in ProviderErrors :
       IF ~isFileNotActiveError(error) \/ extractFileIdFromError(error) = NoFile
         THEN Raise(error)
       ELSE SendRepaired(
              Repair(replaceFileWithProcessingPlaceholder(
                       extractFileIdFromError(error), currentEvents),
                     NoReplacements),
              Cause("notActive", extractFileIdFromError(error)),
              NoError, attempt + 1,
              IF attempt + 1 < MaxRepairAttempts THEN "notActive"
              ELSE "notActiveLast")
  /\ UNCHANGED <<stored, rewrites>>
  /\ RecoveryFrame

\* the catch of stripAllUnsupportedMimeTypes in a loop of two more passes
MimeRetryRejectsTwoMore ==
  /\ rpc = "mime"
  /\ \E error \in ProviderErrors :
       IF ~isUnsupportedMimeTypeError(error) THEN Raise(error)
       ELSE IF attempt + 1 < MaxRepairAttempts + 2
         THEN MimeAttempt(error, attempt + 1)
       ELSE SendAgain(error, attempt + 1, "mimeLast")
  /\ UNCHANGED <<stored, rewrites>>
  /\ RecoveryFrame

\* the catch in the loop of stripAllUnsupportedMimeTypes
MimeRetryRejects ==
  /\ rpc = "mime"
  /\ \E error \in ProviderErrors :
       IF ~isUnsupportedMimeTypeError(error) THEN Raise(error)
       ELSE IF attempt + 1 < MaxRepairAttempts
         THEN MimeAttempt(error, attempt + 1)
       ELSE SendAgain(error, attempt + 1, "mimeLast")
  /\ UNCHANGED <<stored, rewrites>>
  /\ RecoveryFrame

\* the catch in the loop of stripAllExpiredFiles
ExpiredRetryRejects ==
  /\ rpc = "expired"
  /\ \E error \in ProviderErrors :
       IF ~is403PermissionError(error) THEN Raise(error)
       ELSE IF attempt + 1 < MaxRepairAttempts
         THEN ExpiredAttempt(error, attempt + 1)
       ELSE SendAgain(error, attempt + 1, "expiredLast")
  /\ UNCHANGED <<stored, rewrites>>
  /\ RecoveryFrame

\* a request outside every try block rejects: the error leaves the model call
UncaughtRejects ==
  /\ rpc \in {"nuclear", "notActiveLast", "mimeLast", "expiredLast"}
  /\ \E error \in ProviderErrors : Raise(error)
  /\ UNCHANGED <<stored, rewrites>>
  /\ RecoveryFrame

\* RequestResolves that writes the replacements back on every success
RequestResolvesThenRewrite ==
  /\ rpc \in {"first", "notActive", "notActiveLast", "mimeLast", "expiredLast"}
  /\ rpc' = "rewrite"
  /\ UNCHANGED <<stored, rewrites, currentEvents, currentError,
                 allReplacements, attempt, sent, numRequests, storedAtSend,
                 causes>>
  /\ RecoveryFrame

\* a request followed by no rewriteHistory resolves: its output is returned
RequestResolves ==
  /\ rpc \in {"first", "notActive", "notActiveLast", "mimeLast", "expiredLast"}
  /\ rpc' = "returned"
  /\ UNCHANGED <<stored, rewrites, currentEvents, currentError,
                 allReplacements, attempt, sent, numRequests, storedAtSend,
                 causes>>
  /\ RecoveryFrame

\* RetryResolves that returns the output without calling rewriteHistory
RetryResolvesWithoutRewrite ==
  /\ rpc \in {"mime", "expired", "nuclear"}
  /\ rpc' = "returned"
  /\ UNCHANGED <<stored, rewrites, currentEvents, currentError,
                 allReplacements, attempt, sent, numRequests, storedAtSend,
                 causes>>
  /\ RecoveryFrame

\* a retried request of stripAllUnsupportedMimeTypes or stripAllExpiredFiles
\* resolves: rewriteHistory(allReplacements) is called
RetryResolves ==
  /\ rpc \in {"mime", "expired", "nuclear"}
  /\ rpc' = "rewrite"
  /\ UNCHANGED <<stored, rewrites, currentEvents, currentError,
                 allReplacements, attempt, sent, numRequests, storedAtSend,
                 causes>>
  /\ RecoveryFrame

\* rewriteHistory that removes the events it is handed a replacement for
rewriteStoreRemoving(events, replacements) ==
  LET untouched(e) == e.id \notin DOMAIN replacements
  IN SelectSeq(events, untouched)

\* the store after rewriteHistory(replacements): every event whose id is a
\* key is replaced in place
rewriteStore(events, replacements) ==
  [i \in 1..Len(events) |->
     IF events[i].id \in DOMAIN replacements
       THEN replacements[events[i].id] ELSE events[i]]

\* rewriteHistory resolves: the output of the retried request is returned
RewriteHistory ==
  /\ rpc = "rewrite"
  /\ stored' = rewriteStore(stored, allReplacements)
  /\ rewrites' = Append(rewrites, allReplacements)
  /\ rpc' = "returned"
  /\ UNCHANGED <<currentEvents, currentError, allReplacements, attempt, sent,
                 numRequests, storedAtSend, causes>>
  /\ RecoveryFrame

callGeminiWithFixHistory ==
  \/ FirstRequestRejects
  \/ NotActiveRetryRejects
  \/ MimeRetryRejects
  \/ ExpiredRetryRejects
  \/ UncaughtRejects
  \/ RequestResolves
  \/ RetryResolves
  \/ RewriteHistory

RecoverySpec ==
  RecoveryInit /\ [][callGeminiWithFixHistory]_vars /\
  WF_vars(callGeminiWithFixHistory)

\* ------------------------------------------- one response: mapping to events
\* the last stage of geminiAgentCaller applied to one provider response
MappingInit ==
  /\ LoopIdle
  /\ SkillIdle
  /\ TokenIdle
  /\ CallerIdle
  /\ RecoveryIdle
  /\ RetryIdle
  /\ geminiOutput \in GeminiOutputs
  /\ mappedEvents = <<>>
  /\ mpc = "mapping"

MapOutput ==
  /\ mpc = "mapping"
  /\ mappedEvents' = geminiAgentCaller(geminiOutput, 1)
  /\ mpc' = "mapped"
  /\ UNCHANGED <<geminiOutput, loopVars, recoveryVars, retryVars,
                 callerVars,
                 skillVars,
                 tokenVars>>

MappingSpec == MappingInit /\ [][MapOutput]_vars

\* ------------------------------------------- one callGemini: the retry layer
\* callGemini for one request: conditionalRetry(is500Error)(RetryWaitMs,
\* RetryTimes, rawCallGemini), then the catch with the alternate model.
\* conditionalRetry (gamla) calls the function, and while the error satisfies
\* the predicate and retries are left, sleeps and calls it again
RetryInit ==
  /\ LoopIdle
  /\ SkillIdle
  /\ TokenIdle
  /\ CallerIdle
  /\ RecoveryIdle
  /\ MappingIdle
  /\ reqModel \in RequestModels
  /\ rawRequests = <<>>
  /\ waits = <<>>
  /\ gpc = "primary"

RawRequest(m, status) == [model |-> m, status |-> status]

RetryFrame == UNCHANGED <<reqModel, loopVars, recoveryVars, mappingVars,
                 callerVars,
                 skillVars,
                 tokenVars>>

\* rawCallGemini resolves: its output is the output of callGemini
RawResolves ==
  /\ gpc \in {"primary", "fallback"}
  /\ rawRequests' =
       Append(rawRequests,
              RawRequest(IF gpc = "primary" THEN reqModel
                         ELSE alternateModel(reqModel), RawOk))
  /\ gpc' = "returned"
  /\ UNCHANGED waits
  /\ RetryFrame

\* rawCallGemini rejects inside conditionalRetry: a retry after a sleep while
\* retries are left, otherwise the catch of callGemini
PrimaryRejects ==
  /\ gpc = "primary"
  /\ \E status \in RawOutcomes \ {RawOk} :
       /\ rawRequests' = Append(rawRequests, RawRequest(reqModel, status))
       /\ gpc' = IF ~is500Error(status) THEN "raised"
                 ELSE IF Len(waits) < RetryTimes THEN "sleeping"
                 ELSE "fallback"
  /\ UNCHANGED waits
  /\ RetryFrame

\* sleep(waitMs) is over: rawCallGemini is called again
Sleep ==
  /\ gpc = "sleeping"
  /\ waits' = Append(waits, RetryWaitMs)
  /\ gpc' = "primary"
  /\ UNCHANGED rawRequests
  /\ RetryFrame

\* the request to the alternate model rejects: callGemini rejects
FallbackRejects ==
  /\ gpc = "fallback"
  /\ \E status \in RawOutcomes \ {RawOk} :
       rawRequests' =
         Append(rawRequests, RawRequest(alternateModel(reqModel), status))
  /\ gpc' = "raised"
  /\ UNCHANGED waits
  /\ RetryFrame

callGemini == RawResolves \/ PrimaryRejects \/ Sleep \/ FallbackRejects

RetrySpec == RetryInit /\ [][callGemini]_vars

\* ------------------------- one geminiAgentCaller call: filters, then the call
\* geminiAgentCaller runs the three filters and issues the first request of
\* callGeminiWithFixHistory without an await in between: one step.  The store
\* holds the events the caller was handed.
CallerStart(histories) ==
  /\ LoopIdle
  /\ SkillIdle
  /\ TokenIdle
  /\ MappingIdle
  /\ RetryIdle
  /\ stored \in histories
  /\ given = stored
  /\ orphanPass = NoPass
  /\ orphanFree = <<>>
  /\ callEvents = <<>>
  /\ currentEvents = <<>>
  /\ currentError = NoError
  /\ allReplacements = NoReplacements
  /\ attempt = 0
  /\ rpc = "filters"
  /\ sent = <<>>
  /\ numRequests = 0
  /\ rewrites = <<>>
  /\ storedAtSend = <<>>
  /\ causes = <<>>

PrepareRequest ==
  /\ rpc = "filters"
  /\ orphanPass' = filterPass(given)
  /\ orphanFree' = filterOrphanedToolResults(given)
  /\ callEvents' = filterUnsupportedGeminiAttachments(
                     filterInvalidToolCalls(orphanFree'))
  /\ currentEvents' = callEvents'
  /\ sent' = callEvents'
  /\ numRequests' = 1
  /\ storedAtSend' = stored
  /\ rpc' = "first"
  /\ UNCHANGED <<given, stored, currentError, allReplacements, attempt,
                 rewrites, causes, loopVars, mappingVars, retryVars,
                 skillVars,
                 tokenVars>>

FilterInit == CallerStart(FilterHistories)

FilterSpec == FilterInit /\ [][PrepareRequest]_vars

CallerInit == CallerStart(CallerHistories)

geminiAgentCallerCall == PrepareRequest \/ callGeminiWithFixHistory

CallerSpec == CallerInit /\ [][geminiAgentCallerCall]_vars

\* -------------------------- one function call dispatched in a run with skills
\* callToResult(allTools)(fc) of a run whose AgentSpec declares skills.  The
\* first step runs up to the first await on a handler of a declared tool
\* (the handlers of run_command and learn_skill run in it); the second step
\* is the settlement of that handler.
SkillInit ==
  /\ LoopIdle
  /\ RecoveryIdle
  /\ MappingIdle
  /\ RetryIdle
  /\ CallerIdle
  /\ TokenIdle
  /\ skills \in SkillLists
  /\ skillCall \in SkillFunctionCalls
  /\ handlerRuns = <<>>
  /\ skillOutcome = NoOutcome
  /\ spc = "call"

SkillFrame ==
  UNCHANGED <<skills, skillCall, loopVars, recoveryVars, mappingVars,
              retryVars, callerVars, tokenVars>>

Returned(text) == [kind |-> "return", result |-> text]

Thrown(error) == [kind |-> "throw", result |-> error]

\* a handler of createSkillTools ran: its string is the result, its error
\* rejects callToResult, or the handler of a skill's tool is awaited
SkillToolRuns(handled) ==
  /\ handlerRuns' =
       IF handled.kind = "handler"
         THEN <<HandlerRun("none", skillCall.name, skillCall.args),
                HandlerRun(handled.skill, handled.tool, handled.args)>>
         ELSE <<HandlerRun("none", skillCall.name, skillCall.args)>>
  /\ skillOutcome' =
       IF handled.kind = "return" THEN Returned(handled.result)
       ELSE IF handled.kind = "throw" THEN Thrown(handled.result)
       ELSE NoOutcome
  /\ spc' = IF handled.kind = "handler" THEN "handler" ELSE "done"

DispatchSkillCall ==
  /\ spc = "call"
  /\ LET called == callToResult(allToolsWith(skills), skillCall)
     IN IF called.kind = "return"
          THEN /\ skillOutcome' = Returned(called.value.result)
               /\ spc' = "done"
               /\ UNCHANGED handlerRuns
        ELSE IF called.kind = "throw"
          THEN /\ skillOutcome' = Thrown(<<called.error>>)
               /\ spc' = "done"
               /\ UNCHANGED handlerRuns
        ELSE IF skillCall.name = runCommandToolName
          THEN SkillToolRuns(runCommand(skills, called.args))
        ELSE IF skillCall.name = learnSkillToolName
          THEN SkillToolRuns(learnSkill(skills, called.args))
        ELSE /\ handlerRuns' =
                  <<HandlerRun("none", skillCall.name, called.args)>>
             /\ spc' = "handler"
             /\ UNCHANGED skillOutcome
  /\ SkillFrame

\* the awaited handler resolves: its value is validated and returned
SkillHandlerResolves ==
  /\ spc = "handler"
  /\ \E out \in HandlerReturns :
       LET settled == callToResultAfterHandler(skillCall, out)
       IN skillOutcome' =
            IF settled.kind = "throw" THEN Thrown(<<settled.error>>)
            ELSE Returned(settled.value.result)
  /\ spc' = "done"
  /\ UNCHANGED handlerRuns
  /\ SkillFrame

SkillDispatch == DispatchSkillCall \/ SkillHandlerResolves

SkillSpec == SkillInit /\ [][SkillDispatch]_vars

\* ------------------------------------------------------ token estimation
\* a text of n code units; the estimate reads nothing of a text but its
\* length
chars(n) == [i \in 1..n |-> "a"]

\* Math.ceil(p / q) for p >= 0, q > 0
ceilDiv(p, q) == (p + q - 1) \div q

\* approxTextTokens that counts the empty text as one token
approxTextTokensNoEmpty(text) ==
  IF 1 >= ceilDiv(13 * Len(text), 40) THEN 1
  ELSE ceilDiv(13 * Len(text), 40)

\* Math.max(1, Math.ceil((text.length / 4) * 1.3)), 0 for the empty text.
\* The double product equals 13 * length / 40 wherever that is an integer,
\* so the ceiling is the one of the exact quotient
approxTextTokens(text) ==
  IF Len(text) = 0 THEN 0
  ELSE IF 1 >= ceilDiv(13 * Len(text), 40) THEN 1
  ELSE ceilDiv(13 * Len(text), 40)

\* JSON.stringify of an object of string fields: a sequence of <<key, value>>
RECURSIVE stringifyEntries(_)
stringifyEntries(obj) ==
  IF Len(obj) = 0 THEN <<>>
  ELSE <<"\"">> \o obj[1][1] \o <<"\"", ":", "\"">> \o obj[1][2]
         \o <<"\"">>
         \o (IF Len(obj) = 1 THEN <<>> ELSE <<",">>)
         \o stringifyEntries(Tail(obj))

stringify(obj) == <<"{">> \o stringifyEntries(obj) \o <<"}">>

approxJsonTokens(obj) == approxTextTokens(stringify(obj))

\* inline data of a length for which Math.ceil(length / 4 * 1.1) is the
\* ceiling of 11 * length / 40 (every length below 200)
inlineData(mimeType, dataBase64) ==
  [kind |-> "inline", mimeType |-> mimeType, dataBase64 |-> dataBase64,
   fileUri |-> <<>>]

fileReference(mimeType, fileUri) ==
  [kind |-> "file", mimeType |-> mimeType, dataBase64 |-> <<>>,
   fileUri |-> fileUri]

RECURSIVE attachmentTokens(_)
attachmentTokens(attachments) ==
  IF Len(attachments) = 0 THEN 0
  ELSE LET a == attachments[Len(attachments)]
           sum == attachmentTokens(SubSeq(attachments, 1,
                                          Len(attachments) - 1))
       IN IF a.kind = "inline"
            THEN sum + ceilDiv(11 * Len(a.dataBase64), 40)
          ELSE sum + approxTextTokens(a.fileUri)
                 + approxTextTokens(a.mimeType)

\* a HistoryEvent as estimateTokens reads it: its texts are sequences of
\* code units
TokenEvent(type, name, text, attachments) ==
  [type |-> type, name |-> name, text |-> text, result |-> <<>>,
   reaction |-> <<>>, parameters |-> <<>>, attachments |-> attachments]

Estimate(tokens) == [kind |-> "return", tokens |-> tokens]

\* assertNever
Unhandled == [kind |-> "throw", tokens |-> 0]

estimateTokens(e) ==
  IF e.type \in {"participant_utterance", "participant_edit_message"}
    THEN Estimate(approxTextTokens(e.name) + approxTextTokens(e.text)
                    + attachmentTokens(e.attachments) + 2)
  ELSE IF e.type \in {"own_utterance", "own_edit_message"}
    THEN Estimate(approxTextTokens(e.text)
                    + attachmentTokens(e.attachments) + 2)
  ELSE IF e.type = "tool_call"
    THEN Estimate(approxTextTokens(e.name)
                    + approxJsonTokens(e.parameters) + 4)
  ELSE IF e.type = "tool_result"
    THEN Estimate(approxTextTokens(e.name) + approxTextTokens(e.result)
                    + attachmentTokens(e.attachments) + 4)
  ELSE IF e.type = "own_thought"
    THEN Estimate(approxTextTokens(e.text) + 2)
  ELSE IF e.type = "participant_reaction"
    THEN Estimate(approxTextTokens(e.name) + approxTextTokens(e.reaction)
                    + 2)
  ELSE IF e.type = "own_reaction"
    THEN Estimate(approxTextTokens(e.reaction) + 2)
  ELSE IF e.type = "do_nothing"
    THEN Estimate(1)
  ELSE Unhandled

\* the attachments of the estimated utterances: none, inline data, a file
TokenAttachments ==
  { <<>>,
    <<inlineData(chars(9), chars(8))>>,
    <<fileReference(chars(9), chars(12)), inlineData(chars(9), chars(3))>> }

\* an utterance with text A and the same utterance with text A + B, B not
\* empty
UtterancePairs ==
  { << TokenEvent(type, chars(4), chars(a), atts),
       TokenEvent(type, chars(4), chars(a) \o chars(b), atts) >> :
      type \in {"participant_utterance", "own_utterance"},
      atts \in TokenAttachments,
      a \in 0..(MaxTextLength - 1), b \in 1..MaxTextLength }

TokenInit ==
  /\ LoopIdle
  /\ RecoveryIdle
  /\ MappingIdle
  /\ RetryIdle
  /\ CallerIdle
  /\ SkillIdle
  /\ tokenEvents \in {p \in UtterancePairs : Len(p[2].text) <= MaxTextLength}
  /\ tokenEstimates = <<>>
  /\ tpc = "estimating"

\* estimateTokens of the next event
EstimateNext ==
  /\ tpc = "estimating"
  /\ tokenEstimates' =
       Append(tokenEstimates,
              estimateTokens(tokenEvents[Len(tokenEstimates) + 1]))
  /\ tpc' = IF Len(tokenEstimates') = Len(tokenEvents) THEN "estimated"
            ELSE "estimating"
  /\ UNCHANGED <<tokenEvents, loopVars, recoveryVars, mappingVars,
                 retryVars, callerVars, skillVars>>

TokenSpec == TokenInit /\ [][EstimateNext]_vars

\* the runs of the agent loop together with the model calls of the adapter:
\* every change either of them makes to a history store
LedgerInit == Init \/ RecoveryInit

LedgerNext == Next \/ callGeminiWithFixHistory

LedgerSpec == LedgerInit /\ [][LedgerNext]_vars

TypeOK ==
  /\ pc \in {"iterate", "model", "output", "dispatch", "handler", "check",
             "done", "max", "rejected"}
  /\ c \in 0..(MaxIterationsBound + 1)
  /\ Len(output) <= 2

\* ------------------------------------------------------------------ claims
Terminal == pc \in {"done", "max", "rejected"}

\* C1: the number of model calls never exceeds maxIterations; the counter is
\* incremented before each model call; as soon as it exceeds maxIterations,
\* onMaxIterationsReached is invoked exactly once and the run returns
\* normally, and after that return there is no model call, no tool dispatch
\* and no history append.
C1_CapInvariant ==
  /\ modelCalls <= maxIterations
  /\ modelCalls <= c
  /\ (pc \in {"model", "output", "dispatch", "handler", "check"}
        => modelCalls = c)
  /\ callbackCalls = (IF c > maxIterations THEN 1 ELSE 0)
  /\ (c > maxIterations
        => pc = "max" /\ thrown = "none" /\ c = maxIterations + 1
           /\ modelCalls = maxIterations /\ inFlight = {})
  /\ (pc = "max" => c > maxIterations)

C1_MaxIterationsCap ==
  /\ []C1_CapInvariant
  /\ [][pc = "max" => UNCHANGED <<pc, history, modelCalls, callbackCalls,
                                   invoked, inFlight, c>>]_vars

C1_Witness == pc = "max" /\ maxIterations = 2 /\ modelCalls = 2

\* C2: at the end of an iteration the loop stops in DONE exactly when the
\* events returned by this iteration's model call contain no tool_call and
\* the last event of the history, read at that moment, has isOwn = TRUE;
\* otherwise it starts another iteration.  DONE is entered from nowhere else.
C2_TerminationRule ==
  [][ /\ (pc = "check" /\ pc' # "check")
        => /\ pc' \in {"done", "iterate"}
           /\ pc' = "done" <=>
                /\ \A i \in 1..Len(output) : output[i].type # "tool_call"
                /\ Len(history) > 0
                /\ history[Len(history)].isOwn
      /\ (pc # "done" /\ pc' = "done") => pc = "check" ]_vars

C2_Witness == pc = "done" /\ c = 2

\* C3: a tool-free run started from an empty history ends, its counter never
\* passes maxIterations + 1 (at most maxIterations iterations call the model)
\* and it never performs more than maxIterations + 1 model calls.
C3_ToolFreeTermination ==
  (toolFree /\ initialHistory = <<>>)
    => /\ <>Terminal
       /\ [](c <= maxIterations + 1 /\ modelCalls <= maxIterations + 1)

C3_Witness ==
  toolFree /\ initialHistory = <<>> /\ pc = "done" /\ maxIterations = 2
  /\ c = 2

\* the tool_result events of events that answer the tool_call at position i
Answers(events, i) ==
  {j \in 1..Len(events) :
     /\ events[j].type = "tool_result"
     /\ events[j].toolCallId = events[i].id}

\* every tool_call of events that a model call returned has exactly one
\* answer, which comes later and carries the call's name
AllAnswered(events) ==
  \A i \in 1..Len(events) :
    (events[i].type = "tool_call" /\ events[i].id \notin Ids(initialHistory))
      => /\ Cardinality(Answers(events, i)) = 1
         /\ \A j \in Answers(events, i) :
              j > i /\ events[j].name = events[i].name

HandlerErrors == {"handler error", "handler returned invalid value"}

LoopAppended ==
  SelectSeq(history,
            LAMBDA e : \/ e.id \in Ids(output)
                       \/ e.type = "tool_result" /\ e.toolCallId \in Ids(output))

\* C5: within one iteration the loop appends all events returned by the
\* model call in the order returned, and only afterwards that iteration's
\* tool_result events, in the order of their tool_call events.
C5_AppendOrder ==
  LET calls == functionCallsOf(output)
      n == Len(output)
      appended == LoopAppended
      m == Len(appended)
  IN /\ m <= n + Len(calls)
     /\ \A k \in 1..m :
          IF k <= n
            THEN appended[k] = output[k]
            ELSE /\ appended[k].type = "tool_result"
                 /\ appended[k].toolCallId = calls[k - n].id
                 /\ appended[k].id > output[n].id
     /\ (pc = "output" => m = pos - 1)
     /\ (pc \in {"dispatch", "handler"} => m = n + pos - 1)
     /\ (pc = "check" => m = n + Len(calls))

C5_Witness ==
  /\ pc = "check"
  /\ Len(output) = 2
  /\ output[1].type = "own_utterance"
  /\ output[2].type = "tool_call"
  /\ participantAppends = 1

\* C6: the tool calls of one iteration are dispatched one after the other in
\* the order received: a handler starts only after the handler of the
\* previous call has settled and its tool_result has been appended, so at
\* most one handler of a run is in flight.
C6_SequentialDispatch ==
  LET calls == functionCallsOf(output)
  IN /\ Cardinality(inFlight) <= 1
     /\ (pc # "handler" => inFlight = {})
     /\ (pc = "handler"
           => /\ inFlight = {calls[pos].id}
              /\ invoked[Len(invoked)][1] = calls[pos].id
              /\ \A k \in 1..(pos - 1) :
                   \E j \in 1..Len(history) :
                     /\ history[j].type = "tool_result"
                     /\ history[j].toolCallId = calls[k].id)
     /\ \A a, b \in 1..Len(invoked) : a < b => invoked[a][1] < invoked[b][1]

C6_Witness ==
  pc = "handler" /\ pos = 2 /\ Len(invoked) = 2 /\ invoked[1][1] \in Ids(output)

\* C7: whenever the run returns without hitting the iteration cap, every
\* participant-authored event in history, including the ones appended while
\* a model call or a tool handler was in flight, was in the history passed
\* to at least one model call.
C7_ParticipantEventsSeen ==
  pc = "done"
    => \A i \in 1..Len(history) : ~history[i].isOwn => history[i].id \in seen

\* C8: an event a tool handler pushed into the history during its execution
\* stays in the history as pushed and is in the history passed to every later
\* model call of the run; each model call gets the history read in its own
\* iteration.
C8_HandlerPushesSeen ==
  /\ \A id \in handlerPushed :
       \E i \in 1..Len(history) : history[i] = participantUtteranceTurn(id)
  /\ (pc = "model"
        => /\ handlerPushed \subseteq Ids(snapshot)
           /\ Ids(output) \subseteq Ids(snapshot)
           /\ Len(snapshot) <= Len(history)
           /\ snapshot = SubSeq(history, 1, Len(snapshot)))

C8_Witness == pc = "model" /\ handlerPushed # {} /\ c = 2

\* a step of the loop that dispatches the next tool call
DispatchStep == pc = "dispatch" /\ <<pc, pos>>' # <<pc, pos>>

NoToolNamed(name) == \A i \in 1..Len(allTools) : allTools[i].name # name

NotFoundResult(fc, id) ==
  Event("tool_result", TRUE, id, fc.name, "none",
        <<"Function ", fc.name, " not found">>, <<>>, fc.id)

C10_InvalidArgumentsReported ==
  /\ [][ LET fc == functionCallsOf(output)[pos]
             t == find(allTools, fc.name)
         IN (DispatchStep /\ t # 0 /\ fc.args \notin allTools[t].parameters)
              => /\ pc' # "rejected"
                 /\ thrown' = thrown
                 /\ invoked' = invoked
                 /\ inFlight' = inFlight
                 /\ history' = Append(history,
                       Event("tool_result", TRUE, nextId, fc.name, "none",
                             <<"Invalid arguments: ", "ZodError">>, <<>>,
                             fc.id)) ]_vars
  /\ [](\A k \in 1..Len(invoked) :
          LET t == find(allTools, invoked[k][2])
          IN t # 0 /\ invoked[k][3] \in allTools[t].parameters)

C10_Witness ==
  /\ invoked = <<>>
  /\ \E i \in 1..Len(history) :
       /\ history[i].type = "tool_result"
       /\ history[i].result[1] = "Invalid arguments: "
       /\ \E j \in 1..(i - 1) :
            /\ history[j].id = history[i].toolCallId
            /\ history[j].parameters = InvalidArgs

\* the tool_result events of the history that answer an invoked handler
HandlerResults ==
  {i \in 1..Len(history) :
     /\ history[i].type = "tool_result"
     /\ \E j \in 1..Len(invoked) : invoked[j][1] = history[i].toolCallId}

\* C11: when a tool handler resolves with a value that is neither a string
\* nor a {result, attachments?} structure, the dispatch throws and the run
\* rejects; no tool_result is appended for that call, and every tool_result
\* that answers an invoked handler carries a value toolReturnSchema accepts.
C11_InvalidReturnThrows ==
  /\ thrown = "handler returned invalid value" =>
       /\ pc = "rejected"
       /\ ~\E i \in 1..Len(history) :
             /\ history[i].type = "tool_result"
             /\ history[i].toolCallId = functionCallsOf(output)[pos].id
  /\ \A i \in HandlerResults :
       \E r \in toolReturnSchema :
         /\ history[i].result = r.result
         /\ history[i].attachments =
              (IF r.kind = "string" THEN <<>> ELSE r.attachments)

C11_Witness ==
  /\ thrown = "handler returned invalid value"
  /\ pc = "rejected"
  /\ invoked # <<>>
  /\ inFlight = {}

\* everything that identifies an event and places it in the ledger
SameIdentity(e, f) ==
  /\ e.id = f.id
  /\ e.type = f.type
  /\ e.timestamp = f.timestamp
  /\ e.isOwn = f.isOwn

\* C12: the history is an append-only ledger.  A step of the loop, also one
\* that rejects the run, keeps every event the store holds, in place, and
\* only appends; a step of the adapter keeps the number and the order of the
\* stored events, and changes an event only by rewriteHistory, to the
\* replacement recorded under that event's id, which has the same id, type,
\* timestamp and isOwn.
C12_AppendOnlyLedger ==
  [][ /\ Len(history') >= Len(history)
      /\ SubSeq(history', 1, Len(history)) = history
      /\ Len(stored') = Len(stored)
      /\ \A k \in DOMAIN allReplacements' : allReplacements'[k].id = k
      /\ \A i \in 1..Len(stored) :
           stored'[i] # stored[i] =>
             /\ rpc = "rewrite"
             /\ stored[i].id \in DOMAIN allReplacements
             /\ stored'[i] = allReplacements[stored[i].id]
             /\ SameIdentity(stored'[i], stored[i]) ]_vars

C12_Witness ==
  /\ rpc = "returned"
  /\ rewrites # <<>>
  /\ \E i \in 1..Len(stored) : stored[i] # callEvents[i]

\* a response with no function call, no inline or file media and no text
\* holding a character outside blanks
SilentResponse(response, blanks) ==
  \A i \in 1..Len(response) :
    /\ response[i].type \notin {"function_call", "inline_data", "file_data"}
    /\ response[i].type = "text" =>
         \A j \in 1..Len(response[i].text) : response[i].text[j] \in blanks

\* the mapping of a response: one do_nothing event and nothing else when the
\* response is silent, no do_nothing event otherwise
MapsSilenceToDoNothing(blanks) ==
  mpc = "mapped" =>
    IF SilentResponse(geminiOutput, blanks)
      THEN /\ Len(mappedEvents) = 1
           /\ mappedEvents[1].type = "do_nothing"
      ELSE \A i \in 1..Len(mappedEvents) :
             mappedEvents[i].type # "do_nothing"

\* C13 as amended: a provider response that contains no function call, no
\* inline or file media and no text with a character other than white space
\* and the zero-width characters U+200B, U+200C, U+200D is mapped to exactly
\* one do_nothing event and nothing else; a response that does contain any of
\* these produces no do_nothing event.
C13_DoNothingMapping == MapsSilenceToDoNothing(WhiteSpace \cup ZeroWidth)

C13_Witness ==
  /\ mpc = "mapped"
  /\ Len(geminiOutput) = 2
  /\ SilentResponse(geminiOutput, WhiteSpace \cup ZeroWidth)
  /\ mappedEvents = <<doNothingEvent(1)>>

\* C13 as stated: a provider response that contains no function call, no
\* text with a non-whitespace character and no inline or file media is mapped
\* to exactly one do_nothing event and nothing else, and a response that does
\* contain any of these produces no do_nothing event.
C13_Original == MapsSilenceToDoNothing(WhiteSpace)

\* the model call has settled
Settled == rpc \in {"returned", "raised"}

\* the last request was a retry inside the loop of
\* stripAllUnsupportedMimeTypes or stripAllExpiredFiles
InLoopRetry ==
  /\ causes # <<>>
  /\ causes[Len(causes)].kind \in {"mime", "expired", "allFiles"}
  /\ attempt < MaxRepairAttempts

C15_BoundedRecovery ==
  /\ [](/\ attempt <= MaxRepairAttempts
        /\ Len(causes) <= MaxRepairAttempts
        /\ numRequests <= MaxRepairAttempts + 2
        /\ rpc = "raised" => currentError \in ProviderErrors)
  /\ [][Settled => UNCHANGED recoveryVars]_vars
  /\ <>Settled

\* the budget is used up and the error of the last request is raised
C15_Witness ==
  /\ rpc = "raised"
  /\ attempt = MaxRepairAttempts
  /\ numRequests = MaxRepairAttempts + 2

\* the positions of the attachments of type mimeType in an event
OfMimeType(e, mimeType) ==
  {j \in 1..Len(e.attachments) : e.attachments[j].mimeType = mimeType}

\* after is before without the attachments of type mimeType, the others
\* kept in their order
WithoutMimeType(before, after, mimeType) ==
  LET keptAt == {j \in 1..Len(before) : before[j].mimeType # mimeType}
      nth(n) == CHOOSE j \in keptAt :
                  Cardinality({l \in keptAt : l <= j}) = n
  IN /\ Len(after) = Cardinality(keptAt)
     /\ \A n \in 1..Len(after) : after[n] = before[nth(n)]

\* a step that repairs an "unsupported MIME type" failure
MimeRepairStep == rpc' = "mime" /\ Len(causes') = Len(causes) + 1

\* C16: the repair of an "unsupported MIME type" failure for mime type M
\* removes all and only the attachments whose mimeType is M; each event that
\* lost an attachment gets one placeholder note appended to its text (to its
\* result when it is a tool_result) and is otherwise unchanged; every other
\* event is unchanged; the repaired history, which is the one sent next,
\* holds no attachment of type M.
C16_MimeRepair ==
  [][ MimeRepairStep =>
        LET M == causes'[Len(causes')].value
        IN /\ M = currentError'.mimeType
           /\ sent' = currentEvents'
           /\ Len(currentEvents') = Len(currentEvents)
           /\ \A i \in 1..Len(currentEvents) :
                LET before == currentEvents[i]
                    after == currentEvents'[i]
                IN /\ WithoutMimeType(before.attachments,
                                      after.attachments, M)
                   /\ OfMimeType(after, M) = {}
                   /\ IF OfMimeType(before, M) = {}
                        THEN after = before
                      ELSE IF before.type = "tool_result"
                        THEN after =
                               [before EXCEPT
                                  !.result =
                                    Append(@, UnsupportedPlaceholder(M)),
                                  !.attachments = after.attachments]
                      ELSE after =
                             [before EXCEPT
                                !.text = Append(@, UnsupportedPlaceholder(M)),
                                !.attachments = after.attachments] ]_vars

\* an event lost one of its two attachments, another event lost its only one
C16_Witness ==
  /\ rpc = "mime"
  /\ Len(causes) = 1
  /\ \E i \in 1..Len(sent) :
       /\ Len(callEvents[i].attachments) = 2
       /\ Len(sent[i].attachments) = 1
  /\ \E i \in 1..Len(sent) :
       /\ sent[i].type = "tool_result"
       /\ Len(callEvents[i].attachments) = 1
       /\ sent[i].attachments = <<>>

\* events holds nothing of what the repair of cause removed
Repaired(events, cause) ==
  \A i \in 1..Len(events) :
    \A j \in 1..Len(events[i].attachments) :
      LET att == events[i].attachments[j]
      IN IF cause.kind = "mime" THEN att.mimeType # cause.value
         ELSE IF cause.kind = "allFiles" THEN att.kind # "file"
         ELSE ~isFileRef(att, cause.value)

\* s is an initial part of t
IsPrefix(s, t) == Len(s) <= Len(t) /\ SubSeq(t, 1, Len(s)) = s

\* C17: the repairs of one recovery are cumulative.  The history of every
\* request carries the repairs of all the attempts made so far: nothing a
\* repair removed is back, and the notes appended to an event stay.  In the
\* recoveries that call rewriteHistory the accumulated replacement set
\* holds, for every event changed by any attempt, that event as it is after
\* all the changes, and this set is what rewriteHistory is handed.
C17_CumulativeRepairs ==
  /\ \A n \in 1..Len(causes) : Repaired(sent, causes[n])
  /\ \A i \in 1..Len(sent) :
       /\ IsPrefix(callEvents[i].text, sent[i].text)
       /\ IsPrefix(callEvents[i].result, sent[i].result)
  /\ (\A n \in 1..Len(causes) : causes[n].kind # "notActive") =>
       /\ \A i \in 1..Len(currentEvents) :
            currentEvents[i] # callEvents[i] =>
              /\ currentEvents[i].id \in DOMAIN allReplacements
              /\ allReplacements[currentEvents[i].id] = currentEvents[i]
       /\ \A k \in DOMAIN allReplacements :
            \E i \in 1..Len(currentEvents) :
              currentEvents[i].id = k /\ allReplacements[k] = currentEvents[i]
  /\ \A n \in 1..Len(rewrites) : rewrites[n] = allReplacements

\* rewriteHistory is about to be handed the replacements of three attempts,
\* two of which changed the same event
C17_Witness ==
  /\ rpc = "rewrite"
  /\ Len(causes) = 3
  /\ Cardinality(DOMAIN allReplacements) = 2
  /\ \E i \in 1..Len(sent) :
       /\ Len(sent[i].text) = Len(callEvents[i].text) + 2
       /\ allReplacements[sent[i].id] = sent[i]

\* the model call is in, or went through, stripAllNotActiveFiles
NotActiveRecovery ==
  \/ rpc \in {"notActive", "notActiveLast"}
  \/ causes # <<>> /\ causes[1].kind = "notActive"

\* after is before with its references to the file fileId replaced by note
FileReplacedBy(before, after, fileId, note) ==
  LET refs == {j \in 1..Len(before.attachments) :
                 isFileRef(before.attachments[j], fileId)}
      others == {j \in 1..Len(before.attachments) : j \notin refs}
      nth(n) == CHOOSE j \in others :
                  Cardinality({l \in others : l <= j}) = n
      rest == [n \in 1..Cardinality(others) |-> before.attachments[nth(n)]]
  IN IF refs = {} THEN after = before
     ELSE IF before.type = "tool_result"
       THEN after = [before EXCEPT !.result = Append(@, note),
                                   !.attachments = rest]
     ELSE after = [before EXCEPT !.text = Append(@, note),
                                 !.attachments = rest]

AttachmentsAt(e, at) ==
  LET nth(n) == CHOOSE j \in at : Cardinality({l \in at : l <= j}) = n
  IN [n \in 1..Cardinality(at) |-> e.attachments[nth(n)]]

\* after is before without its file attachments, the inline ones kept, and
\* with a note naming the removed ones when there were any
AllFilesStripped(before, after) ==
  LET files == {j \in 1..Len(before.attachments) :
                  before.attachments[j].kind = "file"}
      inlines == {j \in 1..Len(before.attachments) :
                    before.attachments[j].kind = "inline"}
      note == <<"media file expired",
                mimeTypesOf(AttachmentsAt(before, files))>>
  IN IF files = {} THEN after = before
     ELSE IF before.type = "tool_result"
       THEN after = [before EXCEPT
                       !.result = Append(@, note),
                       !.attachments = AttachmentsAt(before, inlines)]
     ELSE after = [before EXCEPT
                     !.text = Append(@, note),
                     !.attachments = AttachmentsAt(before, inlines)]

\* the request in flight is rejected, the step is the catch that handles it
\* as a permission-denied failure; currentError' is the error
PermissionDeniedStep ==
  /\ rpc \in {"first", "expired"}
  /\ rpc' \notin {"rewrite", "returned"}
  /\ is403PermissionError(currentError')
  /\ ~isFileNotActiveError(currentError')
  /\ ~isUnsupportedMimeTypeError(currentError')

Unreferenced(fileId, events) ==
  \A i \in 1..Len(events) : ~hasFileAttachment(fileId, events[i])

\* what the fallback does, when it is taken
FallbackStripsAllFiles ==
  /\ (rpc # "nuclear" /\ rpc' = "nuclear") =>
       /\ PermissionDeniedStep
       /\ currentError'.fileId # NoFile
       /\ Unreferenced(currentError'.fileId, currentEvents)
       /\ Len(currentEvents') = Len(currentEvents)
       /\ \A i \in 1..Len(currentEvents) :
            AllFilesStripped(currentEvents[i], currentEvents'[i])
       /\ sent' = currentEvents'
       /\ numRequests' = numRequests + 1
  /\ rpc = "nuclear" =>
       \/ rpc' = "raised" /\ stored' = callEvents
       \/ rpc' = "rewrite" /\ stored' = callEvents
  /\ (rpc = "rewrite" /\ causes[Len(causes)].kind = "allFiles") =>
       /\ rpc' = "returned"
       /\ stored' = sent
       /\ rewrites' = <<allReplacements>>

\* C19 as amended: when a permission-denied failure names a file that no
\* attachment of the history references, recovery (within its 5 attempts)
\* falls back to stripping all file-kind attachments from the history, the
\* inline attachments being kept, retries once, and persists the stripped
\* events via rewriteHistory when that retry succeeds; when it fails the
\* error is raised.  When no file id can be read from the error, the error
\* is raised again without a retry.
C19_FallbackStripAll ==
  [][ /\ FallbackStripsAllFiles
      /\ (/\ PermissionDeniedStep
          /\ currentError'.fileId # NoFile
          /\ Unreferenced(currentError'.fileId, currentEvents)
          /\ rpc' # "expiredLast") => rpc' = "nuclear"
      /\ (PermissionDeniedStep /\ currentError'.fileId = NoFile) =>
           /\ rpc' = "raised"
           /\ numRequests' = numRequests
           /\ stored' = callEvents ]_vars

\* the fallback kept an inline attachment of an event it stripped a file
\* from, and the stripped events were persisted
C19_Witness ==
  /\ rpc = "returned"
  /\ causes # <<>>
  /\ causes[Len(causes)].kind = "allFiles"
  /\ stored = sent
  /\ \E i \in 1..Len(stored) :
       /\ Len(callEvents[i].attachments) = 2
       /\ Len(stored[i].attachments) = 1
       /\ stored[i].attachments[1].kind = "inline"

\* C19 as stated: whenever a permission-denied failure does not let the
\* offending file be identified (the error names no file, or a file that no
\* attachment references), recovery falls back to stripping all file-kind
\* attachments and retries, instead of failing.
C19_Original ==
  [][ /\ FallbackStripsAllFiles
      /\ (/\ PermissionDeniedStep
          /\ \/ currentError'.fileId = NoFile
             \/ Unreferenced(currentError'.fileId, currentEvents)
          /\ rpc' # "expiredLast") => rpc' = "nuclear" ]_vars

Status5xx == 500..599

Status500 == {500}

\* the retry policy of callGemini, retriable holding the statuses it
\* retries: a request to the primary model that fails with a retriable
\* status is followed by another request, any other outcome ends callGemini
RetriesExactly(retriable) ==
  \A i \in 1..Len(rawRequests) :
    i <= RetryTimes + 1 =>
      ((i = Len(rawRequests) /\ gpc \in {"returned", "raised"})
         <=> rawRequests[i].status \notin retriable)

\* the retries are few and evenly spaced, one attempt goes to the paired
\* model, and its outcome is the outcome of callGemini
RetryShape ==
  /\ Len(rawRequests) <= RetryTimes + 2
  /\ Len(waits) <= RetryTimes
  /\ \A i \in 1..Len(waits) : waits[i] = RetryWaitMs
  /\ \A i \in 1..Len(rawRequests) :
       IF i <= RetryTimes + 1
         THEN /\ rawRequests[i].model = reqModel
              /\ Len(waits) >= i - 1
         ELSE /\ rawRequests[i].model = alternateModel(reqModel)
              /\ rawRequests[i].model # reqModel
              /\ gpc = (IF rawRequests[i].status = RawOk THEN "returned"
                        ELSE "raised")
  /\ gpc = "returned" =>
       rawRequests[Len(rawRequests)].status = RawOk
  /\ gpc = "raised" =>
       rawRequests[Len(rawRequests)].status # RawOk

StrictResults ==
  {i \in 1..Len(given) :
     given[i].type = "tool_result" /\ given[i].toolCallId # NoId}

LegacyResults ==
  {i \in 1..Len(given) :
     given[i].type = "tool_result" /\ given[i].toolCallId = NoId}

ToolCalls == {i \in 1..Len(given) : given[i].type = "tool_call"}

\* the event at position i of the handed history was kept by
\* filterOrphanedToolResults
Kept(i) == given[i].id \in Ids(orphanFree)

Filtered == rpc # "filters"

\* C21: filterOrphanedToolResults removes only tool_result events and keeps
\* the remaining events in their original order; a tool_result with a
\* toolCallId is removed exactly when no tool_call of the history has that id
\* or an earlier tool_result with the same toolCallId has been kept.
C21_StrictOrphansRemoved ==
  Filtered =>
    /\ orphanFree = SelectSeq(given, LAMBDA e : e.id \in Ids(orphanFree))
    /\ \A i \in 1..Len(given) : given[i].type # "tool_result" => Kept(i)
    /\ \A i \in StrictResults :
         ~Kept(i) <=>
           \/ \A k \in ToolCalls : given[k].id # given[i].toolCallId
           \/ \E j \in StrictResults :
                /\ j < i
                /\ given[j].toolCallId = given[i].toolCallId
                /\ Kept(j)

C21_Witness ==
  /\ Filtered
  /\ \E i, j, k \in StrictResults :
       /\ i < j
       /\ given[i].toolCallId = given[j].toolCallId
       /\ Kept(i) /\ ~Kept(j)
       /\ given[k].toolCallId = UnknownCallId /\ ~Kept(k)

\* the ids some tool_result of the handed history names by toolCallId
Referenced == {given[i].toolCallId : i \in StrictResults}

\* the call the kept tool_result at position i was matched with
ClaimOf(i) ==
  LET pairs == {k \in 1..Len(orphanPass.claimed) :
                  orphanPass.claimed[k][1] = i}
  IN IF pairs = {} THEN NoId
     ELSE orphanPass.claimed[CHOOSE k \in pairs : TRUE][2]

\* the tool calls the legacy result at position i can claim: same name,
\* strictly earlier timestamp, named by no toolCallId, claimed by no earlier
\* legacy result
Claimable(i) ==
  {k \in ToolCalls :
     /\ given[k].name = given[i].name
     /\ given[k].timestamp < given[i].timestamp
     /\ given[k].id \notin Referenced
     /\ \A j \in LegacyResults : j < i => ClaimOf(j) # given[k].id}

\* C22: a tool_result without toolCallId is kept exactly when the history
\* holds a tool_call with the same name and a strictly earlier timestamp that
\* no tool_result of the history (wherever it stands) names by toolCallId and
\* no earlier legacy result has claimed; it claims the earliest such call in
\* history order.
C22_LegacyGreedyMatch ==
  Filtered =>
    \A i \in LegacyResults :
      /\ Kept(i) <=> Claimable(i) # {}
      /\ Kept(i) =>
           \E k \in Claimable(i) :
             /\ ClaimOf(i) = given[k].id
             /\ \A l \in Claimable(i) : k <= l
      /\ ~Kept(i) => ClaimOf(i) = NoId

\* a legacy result is dropped because a later tool_result names the only
\* matching call
C22_Witness ==
  /\ Filtered
  /\ \E i \in LegacyResults, j \in StrictResults, k \in ToolCalls :
       /\ k < i /\ i < j
       /\ given[k].name = given[i].name
       /\ given[k].timestamp < given[i].timestamp
       /\ given[j].toolCallId = given[k].id
       /\ ~Kept(i) /\ Kept(j)
       /\ Len(given) = 3

\* C23: in the output of filterOrphanedToolResults the kept tool_result
\* events are matched one-to-one with tool_call events of the history (by id
\* for a result with toolCallId, by name and earlier timestamp otherwise), so
\* there are never more kept tool_result events than tool_call events.
C23_OneResultPerCall ==
  Filtered =>
    LET results == {i \in StrictResults \cup LegacyResults : Kept(i)}
    IN /\ \A i \in results :
            \E k \in ToolCalls :
              /\ ClaimOf(i) = given[k].id
              /\ i \in StrictResults => given[k].id = given[i].toolCallId
              /\ i \in LegacyResults =>
                   /\ given[k].name = given[i].name
                   /\ given[k].timestamp < given[i].timestamp
       /\ \A i, j \in results : i # j => ClaimOf(i) # ClaimOf(j)
       /\ Cardinality(results) <= Cardinality(ToolCalls)
       /\ Cardinality({i \in 1..Len(orphanFree) :
                         orphanFree[i].type = "tool_result"})
            <= Cardinality({i \in 1..Len(orphanFree) :
                              orphanFree[i].type = "tool_call"})

\* one call with two legacy results: only the first is kept
C23_Witness ==
  /\ Filtered
  /\ Cardinality(ToolCalls) = 1
  /\ \E i, j \in LegacyResults :
       /\ i < j
       /\ given[i].name = given[j].name
       /\ Kept(i) /\ ~Kept(j)
       /\ \E k \in ToolCalls : ClaimOf(i) = given[k].id

\* a request of the model call is in flight or has settled: sent holds its
\* events
RequestIssued == Filtered /\ numRequests >= 1

\* the turn comes from participant-authored events only, or is the
\* synthesized opening turn
ParticipantTurn(content) ==
  /\ content.role = "user"
  /\ \A i \in 1..Len(content.parts) :
       \/ content.parts[i].event = NoId
       \/ \E j \in 1..Len(sent) :
            /\ sent[j].id = content.parts[i].event
            /\ ~sent[j].isOwn

\* C24: in every provider request the turn sequence starts with a
\* participant-authored turn: when the filtered history is empty or would
\* open with an agent-authored or tool turn, the synthesized
\* "<conversation started>" user turn is placed first, so no request opens
\* with an agent-authored or tool turn.
C24_RequestOpensWithParticipant ==
  RequestIssued =>
    LET contents == buildReq(sent)
    IN /\ contents # <<>>
       /\ ParticipantTurn(contents[1])
       /\ (sent = <<>> \/ sent[1].isOwn) => contents[1] = ConversationStarted

\* the position in sent of the event a part of the request was made from
PositionOf(part) == CHOOSE j \in 1..Len(sent) : sent[j].id = part.event

\* the positions in sent of the events merged into the turn
MergedInto(content) ==
  {PositionOf(content.parts[i]) :
     i \in {k \in 1..Len(content.parts) : content.parts[k].event # NoId}}

\* C25: request construction merges into one turn only consecutive events of
\* the same logical model turn (same modelMetadata.responseId when present,
\* else same event id), and the turns appear in the request in the order of
\* the history, so the relative order of events of different turns is kept.
C25_TurnsInHistoryOrder ==
  RequestIssued =>
    LET contents == buildReq(sent)
    IN /\ \A k \in 1..Len(contents) :
            \A i, j \in MergedInto(contents[k]) :
              /\ getOriginalId(sent[i]) = getOriginalId(sent[j])
              /\ \A l \in i..j : l \in MergedInto(contents[k])
       /\ \A k, l \in 1..Len(contents) :
            k < l => \A i \in MergedInto(contents[k]),
                        j \in MergedInto(contents[l]) : i < j

\* a tool_call whose thoughtSignature is missing, empty or whitespace only
Unsigned(e) ==
  /\ e.type = "tool_call"
  /\ \A i \in 1..Len(e.modelMetadata.thoughtSignature) :
       e.modelMetadata.thoughtSignature[i] \in WhiteSpace

\* C29: no tool_call whose thoughtSignature is missing, empty or whitespace
\* only is in a provider request, and the filtering leaves the stored
\* history as it is: the event stays in the store and no rewriteHistory call
\* carries a replacement for it.
C29_UnsignedCallsNotSent ==
  /\ RequestIssued => \A i \in 1..Len(sent) : ~Unsigned(sent[i])
  /\ Len(stored) = Len(given)
  /\ \A i \in 1..Len(given) :
       Unsigned(given[i]) =>
         /\ stored[i] = given[i]
         /\ \A k \in 1..Len(rewrites) : given[i].id \notin DOMAIN rewrites[k]

\* a model call that dropped a tool_call with a blank signature from its
\* requests, repaired another event and wrote the repair back
C29_Witness ==
  /\ rpc = "returned"
  /\ rewrites # <<>>
  /\ \E i \in 1..Len(given) :
       /\ Unsigned(given[i])
       /\ given[i].modelMetadata.thoughtSignature = BlankSignature
       /\ given[i].id \notin Ids(sent)
       /\ stored[i] = given[i]
  /\ stored # given

\* the skill named skillName declares a tool named toolName
Declares(skillName, toolName) ==
  \E i \in 1..Len(skills) :
    /\ skills[i].name = skillName
    /\ \E j \in 1..Len(skills[i].tools) : skills[i].tools[j].name = toolName

\* a tool of a skill with that name is declared, none at the top level
OnlyInsideSkill(name) ==
  /\ \E i \in 1..Len(skills) : Declares(skills[i].name, name)
  /\ name # topLevelTool.name

\* the invocations of handlers of skills' tools
InnerRuns == {i \in 1..Len(handlerRuns) : handlerRuns[i].skill # "none"}

\* the handler of run_command was invoked with a command that names the
\* skill and the tool of the inner run: in its first two segments, and as a
\* whole when exact
ThroughRunCommand(run, exact) ==
  /\ skillCall.name = runCommandToolName
  /\ handlerRuns[1] = HandlerRun("none", runCommandToolName, skillCall.args)
  /\ Len(skillCall.args.command) >= 2
  /\ skillCall.args.command[1] = run.skill
  /\ skillCall.args.command[2] = run.tool
  /\ exact => skillCall.args.command = <<run.skill, run.tool>>

SkillIsolation(exact) ==
  /\ (OnlyInsideSkill(skillCall.name) /\ spc # "call") =>
       /\ spc = "done"
       /\ handlerRuns = <<>>
       /\ skillOutcome =
            Returned(<<"Function ", skillCall.name, " not found">>)
  /\ \A i \in InnerRuns :
       /\ i = 2
       /\ Declares(handlerRuns[i].skill, handlerRuns[i].tool)
       /\ ThroughRunCommand(handlerRuns[i], exact)
  /\ Len(skills) > 0 =>
       /\ Len(allToolsWith(skills)) = 3
       /\ allToolsWith(skills)[1] = topLevelTool
       /\ allToolsWith(skills)[2].name = runCommandToolName
       /\ allToolsWith(skills)[3].name = learnSkillToolName

\* C26 as amended: a tool declared only inside a skill is never invoked by a
\* function call that names it directly: such a call yields a "not found"
\* tool_result, and the tool's handler runs only through run_command with a
\* command whose first two "/"-separated segments are the skill's and the
\* tool's name; skill expansion adds exactly the two tools run_command and
\* learn_skill to the tool list.
C26_SkillIsolation == SkillIsolation(FALSE)

C26_Witness ==
  /\ spc = "done"
  /\ skillCall.name = "get_forecast"
  /\ OnlyInsideSkill("get_forecast")
  /\ skillOutcome = Returned(<<"Function ", "get_forecast", " not found">>)

\* C26 as stated: the handler of a skill's tool runs only through
\* run_command with command "skillName/toolName".
C26_Original == SkillIsolation(TRUE)

\* run_command is declared and was called with arguments of its schema
RunCommandCalled ==
  /\ Len(skills) > 0
  /\ skillCall.name = runCommandToolName
  /\ skillCall.args.kind = "run"
  /\ spc # "call"

\* the command names a declared skill and a tool of it (in its first two
\* segments; as a whole when exact) and params hold what the tool's schema
\* declares and nothing else
Executable(exact) ==
  /\ Len(skillCall.args.command) >= 2
  /\ exact => Len(skillCall.args.command) = 2
  /\ Declares(skillCall.args.command[1], skillCall.args.command[2])
  /\ skillCall.args.params = ValidArgs

RunCommandErrors ==
  {"Invalid command format", "Skill not found", "Tool not found in skill",
   "Invalid parameters for"}

RunCommandContract(exact) ==
  RunCommandCalled =>
    IF Executable(exact)
      THEN /\ InnerRuns = {2}
           /\ handlerRuns[2] = HandlerRun(skillCall.args.command[1],
                                          skillCall.args.command[2],
                                          ValidArgs)
      ELSE /\ spc = "done"
           /\ InnerRuns = {}
           /\ skillOutcome.kind = "return"
           /\ skillOutcome.result[1] \in RunCommandErrors

\* C27 as amended: run_command(command, params) invokes an inner tool's
\* handler only when the first two "/"-separated segments of command name a
\* declared skill and a tool of that skill (further segments are ignored)
\* and params pass that tool's schema in strict mode; for a command without
\* "/", an unknown skill, an unknown tool or invalid params it returns a
\* descriptive error string, never throws and invokes no handler.
C27_RunCommandContract == RunCommandContract(FALSE)

\* params with an undeclared field are turned down
C27_Witness ==
  /\ RunCommandCalled
  /\ skillCall.args.command = <<"weather", "get_forecast">>
  /\ skillCall.args.params = UnknownFieldArgs
  /\ skillOutcome.kind = "return"
  /\ skillOutcome.result[1] = "Invalid parameters for"
  /\ handlerRuns = <<HandlerRun("none", runCommandToolName, skillCall.args)>>

\* C27 as stated: an inner handler is invoked only when command has the form
\* skillName/toolName.
C27_Original == RunCommandContract(TRUE)

\* learn_skill is declared and was called with arguments of its schema
LearnSkillCalled ==
  /\ Len(skills) > 0
  /\ skillCall.name = learnSkillToolName
  /\ skillCall.args.kind = "learn"
  /\ spc # "call"

\* C28: learn_skill(skillName) returns a JSON string with the name,
\* description, instructions and declared tools (name, description,
\* parameter schema) of the skill when skillName is a declared skill, and an
\* error string, without throwing, for every other skillName.
C28_LearnSkillContract ==
  LearnSkillCalled =>
    /\ spc = "done"
    /\ skillOutcome.kind = "return"
    /\ \A i \in 1..Len(skills) :
         skills[i].name = skillCall.args.skillName =>
           skillOutcome.result = skillDetails(skills[i])
    /\ (\A i \in 1..Len(skills) : skills[i].name # skillCall.args.skillName)
         => skillOutcome.result[1] = "Skill not found"

\* the pair of estimates of the utterance with text A and of the one with
\* text A + B
BothEstimated == tpc = "estimated"

TextA == tokenEvents[1].text

TextB == SubSeq(tokenEvents[2].text, Len(TextA) + 1, Len(tokenEvents[2].text))

LongerNotSmaller ==
  /\ tokenEstimates[1].kind = "return"
  /\ tokenEstimates[2].kind = "return"
  /\ tokenEstimates[2].tokens >= tokenEstimates[1].tokens

LongerGreater ==
  /\ tokenEstimates[1].kind = "return"
  /\ tokenEstimates[2].kind = "return"
  /\ tokenEstimates[2].tokens > tokenEstimates[1].tokens

\* C30 (as stated): of two utterances that differ only in their text, A and
\* A + B with B not empty, the one with the longer text has the strictly
\* greater estimate
C30_Original == BothEstimated => LongerGreater

\* C30: of two utterances that differ only in their text, A and A + B with B
\* not empty, the one with the longer text never has the smaller estimate,
\* and it has the strictly greater one when A is empty or B has at least
\* four code units
C30_EstimateMonotone ==
  BothEstimated =>
    /\ LongerNotSmaller
    /\ (Len(TextA) = 0 \/ Len(TextB) >= 4) => LongerGreater

\* A of 36 and B of 4 code units: 12 and 13 tokens of text
C30_Witness ==
  /\ BothEstimated
  /\ Len(TextA) = 36
  /\ Len(TextB) = 4
  /\ LongerGreater

\* the types of the events the run builds itself, and of those a participant
\* constructor builds
OwnTypes == {"own_utterance", "tool_call", "tool_result", "do_nothing"}

ParticipantTypes == {"participant_utterance"}

\* the step appends an event the run built (a returned event or a
\* tool_result), not one pushed by a participant or a handler
RunAppends ==
  /\ Len(history') = Len(history) + 1
  /\ participantAppends' = participantAppends
  /\ handlerPushed' = handlerPushed

OthersAppend ==
  /\ Len(history') = Len(history) + 1
  /\ ~RunAppends

\* id and timestamp are values the generators handed out, not used before
FromGenerators(e) ==
  /\ e.id \in 1..(nextId' - 1)
  /\ e.id \notin Ids(history)
  /\ e.timestamp \in 1..(nextId' - 1)

\* C31: every event the run itself creates and appends (own utterance,
\* tool_call, tool_result, do_nothing) has isOwn = TRUE, an event of a
\* participant constructor has isOwn = FALSE, and id and timestamp of both
\* come from the generators.
C31_ConstructorDiscriminants ==
  [][/\ RunAppends =>
          LET e == last(history')
          IN e.isOwn /\ e.type \in OwnTypes /\ FromGenerators(e)
     /\ OthersAppend =>
          LET e == last(history')
          IN ~e.isOwn /\ e.type \in ParticipantTypes /\ FromGenerators(e)]_vars

\* a finished run whose history holds a do_nothing event and a tool_result
\* of the run and an event a participant appended meanwhile
C31_Witness ==
  /\ pc = "done"
  /\ participantAppends + Cardinality(handlerPushed) > 0
  /\ \E i, j \in 1..Len(history) :
       /\ history[i].type = "tool_result" /\ history[i].isOwn
       /\ history[j].type = "do_nothing" /\ history[j].isOwn

\* the tool_call among events that the tool_result answers: the one with its
\* toolCallId, or for a result without toolCallId one of its tool
MatchingCallIn(events, result) ==
  \E j \in 1..Len(events) :
    /\ events[j].type = "tool_call"
    /\ IF result.toolCallId # NoId THEN events[j].id = result.toolCallId
       ELSE events[j].name = result.name

\* C32: after the filters ahead of the model call have run in pipeline order
\* every tool_result in the history sent to the provider has its matching
\* tool_call in that history; no tool_result outlives a tool_call removed for
\* a missing thoughtSignature.
C32_SentResultsHaveCalls ==
  RequestIssued =>
    \A i \in 1..Len(sent) :
      sent[i].type = "tool_result" => MatchingCallIn(sent, sent[i])

\* the termination check of an iteration is evaluated and satisfied
CheckSatisfied ==
  /\ pc = "check"
  /\ pc' # "check"
  /\ shouldStop(output, history)

\* C33: the two terminal outcomes exclude each other: an iteration whose
\* termination check is satisfied, the maxIterations-th included, ends the run
\* in DONE without the callback, DONE is final, and onMaxIterationsReached
\* is invoked only on entering iteration maxIterations + 1, after
\* maxIterations model calls none of which ended the run.
C33_ExclusiveOutcomes ==
  /\ [][CheckSatisfied => pc' = "done" /\ callbackCalls' = 0]_vars
  /\ [][pc = "done" => UNCHANGED <<pc, callbackCalls, c>>]_vars
  /\ [][callbackCalls' # callbackCalls
          => /\ pc = "iterate" /\ pc' = "max"
             /\ c = maxIterations
             /\ modelCalls = maxIterations]_vars
  /\ [](pc = "done" => callbackCalls = 0 /\ c \in 1..maxIterations)

\* a run that ended in DONE in its last allowed iteration
C33_Witness ==
  pc = "done" /\ maxIterations = 2 /\ c = 2 /\ callbackCalls = 0

\* the step invokes rewriteHistory
RewriteInvoked == rewrites' # rewrites

\* the event of the last request that carries the id
SentWithId(id) == sent[CHOOSE j \in 1..Len(sent) : sent[j].id = id]

Repairable(error) ==
  \/ isFileNotActiveError(error) /\ extractFileIdFromError(error) # NoFile
  \/ /\ isUnsupportedMimeTypeError(error)
     /\ extractUnsupportedMimeType(error) # NoMime
  \/ is403PermissionError(error) /\ extractFileIdFromError(error) # NoFile

\* a retry inside one of the three recovery loops rejects and its error
\* leaves the model call
RetryErrorRaised ==
  /\ rpc \in {"notActive", "mime", "expired"}
  /\ rpc' = "raised"

\* C35: a history that needs repairs of two different failure classes is
\* recovered within one model call: an error of another repairable class
\* raised by a retry is handled by that class's repair, not re-raised to the
\* caller.
C35_MixedClassesRecovered ==
  [][RetryErrorRaised => ~Repairable(currentError')]_vars

\* the run rejected with the error a tool handler threw
HandlerRejected == pc = "rejected" /\ thrown = "handler error"

\* C36: when a tool handler throws, the run rejects with that error: no
\* tool_result is appended for that call, the remaining tool calls of the
\* iteration are not dispatched, no further model call is made, and the
\* tool_call events already appended stay in the history.
C36_HandlerErrorRejects ==
  /\ [][(pc = "handler" /\ pc' = "rejected")
         => UNCHANGED <<history, modelCalls, invoked>>]_vars
  /\ [](HandlerRejected =>
          LET calls == functionCallsOf(output)
          IN /\ inFlight = {}
             /\ invoked[Len(invoked)][1] = calls[pos].id
             /\ \A j \in 1..Len(history) :
                  history[j].type = "tool_result" =>
                    \A k \in pos..Len(calls) :
                      history[j].toolCallId # calls[k].id
             /\ \A k \in (pos + 1)..Len(calls) :
                  \A n \in 1..Len(invoked) : invoked[n][1] # calls[k].id
             /\ \A i \in 1..Len(output) :
                  \E j \in 1..Len(history) : history[j] = output[i])
  /\ [][HandlerRejected => UNCHANGED loopVars]_vars

\* the handler of the first of two tool calls threw
C36_Witness ==
  /\ HandlerRejected
  /\ Len(functionCallsOf(output)) = 2
  /\ pos = 1
  /\ modelCalls < maxIterations

\* the model call of the current iteration has returned
ModelReturned == pc \in {"output", "dispatch", "handler", "check"}

\* C37: with the Gemini model caller every model call returns at least one
\* event, whatever parts the response holds, so the history is not empty
\* whenever the termination check reads its last event, also in a run
\* started from an empty history.
C37_CheckReadsNonEmptyHistory ==
  /\ (pc = "iterate" /\ c = 0) =>
       \A g \in GeminiOutputs : Len(geminiAgentCaller(g, nextId)) >= 1
  /\ ModelReturned => Len(output) >= 1
  /\ pc = "check" =>
       /\ Len(history) >= Len(initialHistory) + Len(output)
       /\ Len(history) >= 1

\* the check of a run started from an empty history whose model call
\* answered with no part at all
C37_Witness ==
  /\ pc = "check"
  /\ initialHistory = <<>>
  /\ history = <<doNothingEvent(1)>>

\* the text is empty or holds white space only
BlankText(text) == \A i \in 1..Len(text) : text[i] \in WhiteSpace

\* C38: the adapter never emits an own_utterance whose text is empty or
\* whitespace-only and that carries no attachment, whatever mix of parts the
\* response holds.
C38_NoBlankUtterance ==
  mpc = "mapped" =>
    \A i \in 1..Len(mappedEvents) :
      mappedEvents[i].type = "own_utterance" =>
        \/ ~BlankText(mappedEvents[i].text)
        \/ mappedEvents[i].attachments # <<>>

\* the attachment is one a repair of the model call removed: of the mime
\* type, or a reference to the file, the provider's error named
NamedByError(att) ==
  \E n \in 1..Len(causes) :
    IF causes[n].kind = "mime" THEN att.mimeType = causes[n].value
    ELSE IF causes[n].kind = "allFiles" THEN att.kind = "file"
    ELSE isFileRef(att, causes[n].value)

\* the event of the history the model call was given that carries the id
GivenWithId(id) == given[CHOOSE j \in 1..Len(given) : given[j].id = id]

\* C39: every replacement persisted through rewriteHistory differs from the
\* stored event with the same id only by the removal of the attachments the
\* provider's error named and by the appended placeholder text; what the
\* request-only filters dropped (application/octet-stream attachments) is
\* not written to the store.
C39_OnlyRepairsPersisted ==
  \A k \in 1..Len(rewrites) :
    \A id \in DOMAIN rewrites[k] :
      LET before == GivenWithId(id)
          after == rewrites[k][id]
          untouched(att) == ~NamedByError(att)
      IN /\ after.attachments = SelectSeq(before.attachments, untouched)
         /\ IsPrefix(before.text, after.text)
         /\ IsPrefix(before.result, after.result)
         /\ [after EXCEPT !.attachments = before.attachments,
                          !.text = before.text,
                          !.result = before.result] = before

\* C40: filterOrphanedToolResults is idempotent: applied to its own output
\* it removes nothing further, for every history.
C40_FilterIdempotent ==
  Filtered => filterOrphanedToolResults(orphanFree) = orphanFree

\* a history that lost two tool_result events and kept a third one
C40_Witness ==
  /\ Filtered
  /\ Len(given) = 4
  /\ Len(orphanFree) = 2
  /\ \E i \in StrictResults \cup LegacyResults : Kept(i)
  /\ filterOrphanedToolResults(orphanFree) = orphanFree

====
